---- MODULE Spec2Model ----
(***************************************************************************)
(* Master/agent VM orchestration (prabhakarshah/multiwallet).              *)
(*                                                                         *)
(* The master keeps an in-memory AgentRegistry (src/app/agents.py) that    *)
(* agents fill through the register and heartbeat endpoints                *)
(* (src/app/routes.py); a periodic task sweeps the registry and flips      *)
(* online/offline from heartbeat recency.  VM operations are dispatched    *)
(* through RemoteVMExecutor (src/app/remote_executor.py) to the            *)
(* AgentCommunicator (src/app/communication.py); local ones run the         *)
(* multipass tool through the Command Runner (src/app/multipass.py).  An   *)
(* agent (src/agent/agent_main.py) serves the same operations over HTTP     *)
(* with its own runner (src/agent/agent_executor.py), and both processes    *)
(* attach a terminal to a VM shell (src/app/websocket.py).                  *)
(*                                                                         *)
(* Time is the master's wall clock in whole seconds.  Optional values are  *)
(* sequences of length 0 (None) or 1.  A Python dict is a function whose   *)
(* DOMAIN is the set of its keys.                                          *)
(***************************************************************************)
EXTENDS Integers, Sequences, FiniteSets, TLC

VARIABLES
    agents,      \* AgentRegistry._agents: agent_id -> AgentInfo
    api_keys,    \* AgentRegistry._api_keys: agent_id -> api_key
    now,         \* the master's clock, datetime.now(), in seconds
    monitor,     \* AgentRegistry._heartbeat_task: "stopped", "sleeping", "scanning"
    sweepDue,    \* the time the monitor's asyncio.sleep returns
    sweepNow,    \* check_agent_status: the local `now`
    sweepTodo,   \* check_agent_status: agents the for loop has not visited yet
    sweepCur,    \* check_agent_status: the agent being visited ({} between visits)
    sweepSeen,   \* check_agent_status: the last_seen read for the agent being visited
    lastOp,      \* the operation that completed last, and what it returned
    applied,     \* observer: agent_id -> master time of its last register/heartbeat
    tolerant,    \* observer: agent_id -> every gap between its applied updates was <= 60 s
    since,       \* observer: the time the running monitor was started
    blocked,     \* processes whose event loop is stuck in a subprocess.run for good
    CONFIG,      \* agent_main.CONFIG: the agent's configuration (its api_key)
    uplink,      \* the agent process towards its master: see NoUplink
    listing,     \* the VM listing route's call in progress: see NoListing
    sess,        \* the terminal sessions: each connection handler's locals and peers
    fds,         \* host -> its open descriptors: fd -> the PTY side it refers to
    pty_size,    \* PTY -> the window size set on it: <<rows, cols>>
    pty_in,      \* PTY -> what os.write put on its primary side, write by write
    pty_out      \* PTY -> what the shell printed, chunk by chunk

registry == <<agents, api_keys>>
sweeper  == <<monitor, sweepDue, sweepNow, sweepTodo, sweepCur, sweepSeen>>
observer == <<applied, tolerant, since>>
terminal == <<sess, fds, pty_size, pty_in, pty_out>>
hostside == <<CONFIG, uplink, listing, sess, fds, pty_size, pty_in, pty_out>>
idle     == <<blocked, CONFIG, uplink, listing, sess, fds, pty_size, pty_in, pty_out>>
quiet    == <<applied, tolerant, since, CONFIG, uplink, listing, sess, fds, pty_size, pty_in, pty_out>>
master   == <<agents, api_keys, now, monitor, sweepDue, sweepNow, sweepTodo,
              sweepCur, sweepSeen, applied, tolerant, since>>
others   == <<applied, tolerant, since, blocked, CONFIG, uplink, listing, sess, fds, pty_size, pty_in,
              pty_out>>
nolink   == <<applied, tolerant, since, blocked, CONFIG, listing, sess, fds, pty_size,
              pty_in, pty_out>>
offroute == <<applied, tolerant, since, CONFIG, uplink, sess, fds, pty_size, pty_in,
              pty_out>>
vars     == <<agents, api_keys, now, monitor, sweepDue, sweepNow, sweepTodo,
              sweepCur, sweepSeen, lastOp, applied, tolerant, since,
              blocked, CONFIG, uplink, listing, sess, fds, pty_size, pty_in, pty_out>>

----------------------------------------------------------------------------
(* Program constants *)

heartbeat_interval == 30

offline_threshold == 60

\* send_heartbeat: client.post(..., timeout=10)
post_timeout == 10

\* AgentExecutor.run_multipass_command: subprocess.run(..., timeout=300)
command_timeout == 300

\* struct.pack("HHHH", ...): the largest unsigned short
USHRT_MAX == 65535

(* Bounds of the model *)

\* seconds a tool run takes when it exits promptly
QuickRun == 1

\* seconds a slow tool run takes: longer than the runner's ceiling
SlowRun == 400

\* frames a peer sends in one terminal session
MaxFrames == 2

\* chunks a shell prints in one terminal session
MaxChunks == 2

\* the highest descriptor a process can hold
MaxFd == 6

MaxTime == 90

LiveMaxTime == 100

----------------------------------------------------------------------------
(* Values *)

AgentIds == {"a1", "a2"}

\* The terminal connection handlers that can be running at the same time.
Sessions == {1, 2}

None == << >>

Some(x) == <<x>>

\* Python truthiness of an Optional[str]: None and "" are falsy.
Truthy(opt) == opt # None /\ opt[1] # ""

\* str.rstrip('/') on a string given as a sequence of characters.
RECURSIVE rstrip(_)
rstrip(s) ==
    IF s # << >> /\ s[Len(s)] = "/" THEN rstrip(SubSeq(s, 1, Len(s) - 1)) ELSE s

\* `request.tags or {}`: None and the empty dict are falsy. A dict of tags is a
\* set of <<key, value>> pairs.
tags_or_empty(opt) == IF opt = None \/ opt[1] = {} THEN {} ELSE opt[1]

\* AgentRegisterRequest
Request(id, hostname, api_url, api_key, tags) ==
    [agent_id |-> id, hostname |-> hostname, api_url |-> api_url,
     api_key |-> api_key, tags |-> tags]

\* AgentHeartbeat
Heartbeat(id, timestamp, status, vm_count) ==
    [agent_id |-> id, timestamp |-> timestamp, status |-> status,
     vm_count |-> vm_count]

\* AgentInfo
AgentInfo(id, hostname, api_url, status, last_seen, tags, vm_count) ==
    [agent_id |-> id, hostname |-> hostname, api_url |-> api_url,
     status |-> status, last_seen |-> last_seen, tags |-> tags,
     vm_count |-> vm_count]

\* What the last operation did: its name, the agent id it was given, whether
\* it succeeded (ret), the error text the code chose (err); the outbound
\* requests it sent (net), what the last of them came to (out) and the
\* X-API-Key header it carried (key); the executor class that served it
\* (exe), the ids the Communicator was called with (calls), the Command Runner
\* invocations by first argument (runs), what the tool did in each (outs) and
\* the seconds they took (took); the exception that reached the caller (exc);
\* the HTTP status an agent endpoint answered (code); the terminal session
\* it belongs to (sid, 0 for none).
NoOp ==
    [op |-> "none", id |-> "-", ret |-> TRUE, net |-> 0, err |-> "", out |-> "",
     key |-> None, exe |-> "", calls |-> << >>, runs |-> << >>, outs |-> << >>,
     took |-> 0,
     exc |-> "", code |-> 0, sid |-> 0]

Op(op, id, ret) == [NoOp EXCEPT !.op = op, !.id = id, !.ret = ret]

\* The agent process a1 and the master process as the agent's requests find
\* it.  agent: "stopped", or "running" once startup_event has run and
\* heartbeat_task exists; beat: the parity of the heartbeat loop's
\* iterations; master: "up" when the master accepts requests, "down" when it
\* is stopped or unreachable.
NoUplink == [agent |-> "stopped", beat |-> 0, master |-> "up"]

\* The locals of a call of the VM listing route.  pc: "idle" before a call,
\* "local" inside the local executor's list_vms, "agents" in the loop over
\* the agents, "answered" once it has returned; online: the agents that
\* get_online_agents() returned; todo: those the loop has yet to visit; vms:
\* the hosts whose VMs are in all_vms, and failed: the hosts whose list_vms
\* gave success False or raised (None is the local host, Some(id) an agent).
NoListing == [pc |-> "idle", online |-> {}, todo |-> {}, vms |-> {}, failed |-> {}]

----------------------------------------------------------------------------
(* AgentRegistry: queries *)

get_agent(id) == IF id \in DOMAIN agents THEN Some(agents[id]) ELSE None

get_all_agents == {agents[id] : id \in DOMAIN agents}

get_online_agents == {agents[id] : id \in {i \in DOMAIN agents : agents[i].status = "online"}}

get_agent_api_key(id) == IF id \in DOMAIN api_keys THEN Some(api_keys[id]) ELSE None

----------------------------------------------------------------------------
(* The event loop.  Handlers and the monitor are coroutines of one asyncio  *)
(* loop: another task runs only where the running one awaits.               *)

\* Faulty variant: the sweep awaits between reading last_seen and writing status.
SweepSuspends_await == TRUE

\* check_agent_status is a plain function without an await: it does not
\* suspend between reading an agent's last_seen and writing its status.
SweepSuspends == FALSE

\* subprocess.run is a blocking call made from a coroutine: while it waits
\* for the tool, nothing else of that process runs.
Free(host) == host \notin blocked

Schedulable == (monitor # "scanning" \/ SweepSuspends) /\ Free("master")

----------------------------------------------------------------------------
(* AgentRegistry: mutations *)

\* The AgentInfo register_agent builds from a request at time t.
registered_info(req, t) ==
    AgentInfo(req.agent_id, req.hostname, rstrip(req.api_url), "online", t,
              tags_or_empty(req.tags), 0)

\* The dict d with d[k] = v.
dict_set(d, k, v) == [x \in DOMAIN d \cup {k} |-> IF x = k THEN v ELSE d[x]]

\* The dict d after `del d[k]`.
dict_del(d, k) == [x \in DOMAIN d \ {k} |-> d[x]]

\* Faulty variant: a registration without a key forgets the stored key.
register_agent_forgets_key(req) ==
    /\ Schedulable
    /\ agents' = dict_set(agents, req.agent_id, registered_info(req, now))
    /\ api_keys' = IF Truthy(req.api_key)
                   THEN dict_set(api_keys, req.agent_id, req.api_key[1])
                   ELSE IF req.agent_id \in DOMAIN api_keys
                        THEN dict_del(api_keys, req.agent_id)
                        ELSE api_keys
    /\ lastOp' = Op("register", req.agent_id, TRUE)
    /\ UNCHANGED <<now, sweeper>>

register_agent(req) ==
    /\ Schedulable
    /\ agents' = dict_set(agents, req.agent_id, registered_info(req, now))
    /\ api_keys' = IF Truthy(req.api_key)
                   THEN dict_set(api_keys, req.agent_id, req.api_key[1])
                   ELSE api_keys
    /\ lastOp' = Op("register", req.agent_id, TRUE)
    /\ UNCHANGED <<now, sweeper>>

\* Faulty variant: unregister_agent leaves the key behind.
unregister_agent_keeps_key(id) ==
    /\ Schedulable
    /\ IF id \in DOMAIN agents
       THEN /\ agents' = dict_del(agents, id)
            /\ UNCHANGED api_keys
            /\ lastOp' = Op("unregister", id, TRUE)
       ELSE /\ UNCHANGED registry
            /\ lastOp' = Op("unregister", id, FALSE)
    /\ UNCHANGED <<now, sweeper>>

\* Faulty variant: unregister_agent returns True for an unknown id as well.
unregister_agent_always_true(id) ==
    /\ Schedulable
    /\ IF id \in DOMAIN agents
       THEN /\ agents' = dict_del(agents, id)
            /\ api_keys' = IF id \in DOMAIN api_keys THEN dict_del(api_keys, id)
                           ELSE api_keys
       ELSE UNCHANGED registry
    /\ lastOp' = Op("unregister", id, TRUE)
    /\ UNCHANGED <<now, sweeper>>

unregister_agent(id) ==
    /\ Schedulable
    /\ IF id \in DOMAIN agents
       THEN /\ agents' = dict_del(agents, id)
            /\ api_keys' = IF id \in DOMAIN api_keys THEN dict_del(api_keys, id)
                           ELSE api_keys
            /\ lastOp' = Op("unregister", id, TRUE)
       ELSE /\ UNCHANGED registry
            /\ lastOp' = Op("unregister", id, FALSE)
    /\ UNCHANGED <<now, sweeper>>

\* Faulty variant: update_heartbeat without the vm_count assignment.
heartbeat_info_keeps_count(agent, hb) ==
    [agent EXCEPT !.last_seen = hb.timestamp, !.status = hb.status]

\* The AgentInfo after update_heartbeat's three assignments.
heartbeat_info(agent, hb) ==
    [agent EXCEPT !.last_seen = hb.timestamp, !.status = hb.status,
                  !.vm_count = hb.vm_count]

\* POST /api/agent/heartbeat: agent_heartbeat calls update_heartbeat.
update_heartbeat(hb) ==
    /\ Schedulable
    /\ IF hb.agent_id \in DOMAIN agents
       THEN /\ agents' = [agents EXCEPT ![hb.agent_id] = heartbeat_info(@, hb)]
            /\ lastOp' = Op("heartbeat", hb.agent_id, TRUE)
       ELSE /\ UNCHANGED agents
            /\ lastOp' = Op("heartbeat", hb.agent_id, FALSE)
    /\ UNCHANGED <<api_keys, now, sweeper>>

----------------------------------------------------------------------------
(* The liveness sweep *)

\* Faulty variant: the sweep waits for a further interval beyond the threshold.
swept_status_late(status, seen, t) ==
    IF t - seen > offline_threshold + heartbeat_interval
    THEN (IF status # "offline" THEN "offline" ELSE status)
    ELSE (IF status = "offline" THEN "online" ELSE status)

\* The status check_agent_status leaves an agent with, having read last_seen
\* `seen` at time t.
swept_status(status, seen, t) ==
    IF t - seen > offline_threshold
    THEN (IF status # "offline" THEN "offline" ELSE status)
    ELSE (IF status = "offline" THEN "online" ELSE status)

start_heartbeat_monitor ==
    /\ Schedulable
    /\ monitor = "stopped"
    /\ monitor' = "sleeping"
    /\ sweepDue' = now + heartbeat_interval
    /\ UNCHANGED <<registry, now, sweepNow, sweepTodo, sweepCur, sweepSeen, lastOp>>

stop_heartbeat_monitor ==
    /\ Free("master")
    /\ monitor = "sleeping"
    /\ monitor' = "stopped"
    /\ sweepDue' = 0
    /\ UNCHANGED <<registry, now, sweepNow, sweepTodo, sweepCur, sweepSeen, lastOp>>

\* _heartbeat_loop wakes from asyncio.sleep and enters check_agent_status.
check_agent_status_enter ==
    /\ Free("master")
    /\ monitor = "sleeping"
    /\ now = sweepDue
    /\ monitor' = "scanning"
    /\ sweepNow' = now
    /\ sweepTodo' = DOMAIN agents
    /\ sweepCur' = {}
    /\ lastOp' = Op("sweeping", "-", TRUE)
    /\ UNCHANGED <<registry, now, sweepDue, sweepSeen>>

\* for agent in self._agents.values(): time_since_last_seen = now - agent.last_seen
check_agent_status_read(id) ==
    /\ monitor = "scanning"
    /\ sweepCur = {}
    /\ id \in sweepTodo
    /\ id \in DOMAIN agents
    /\ sweepCur' = {id}
    /\ sweepSeen' = agents[id].last_seen
    /\ UNCHANGED <<registry, now, monitor, sweepDue, sweepNow, sweepTodo, lastOp>>

\* Faulty variant: the sweep stamps the agents it marks.
check_agent_status_write_stamps(id) ==
    /\ monitor = "scanning"
    /\ sweepCur = {id}
    /\ agents' = IF id \in DOMAIN agents
                 THEN [agents EXCEPT ![id].status = swept_status(@, sweepSeen, sweepNow),
                                     ![id].last_seen = sweepNow]
                 ELSE agents
    /\ sweepCur' = {}
    /\ sweepTodo' = sweepTodo \ {id}
    /\ UNCHANGED <<api_keys, now, monitor, sweepDue, sweepNow, sweepSeen, lastOp>>

\* the if/else on time_since_last_seen > threshold, which writes agent.status
check_agent_status_write(id) ==
    /\ monitor = "scanning"
    /\ sweepCur = {id}
    /\ agents' = IF id \in DOMAIN agents
                 THEN [agents EXCEPT ![id].status = swept_status(@, sweepSeen, sweepNow)]
                 ELSE agents
    /\ sweepCur' = {}
    /\ sweepTodo' = sweepTodo \ {id}
    /\ UNCHANGED <<api_keys, now, monitor, sweepDue, sweepNow, sweepSeen, lastOp>>

\* the for loop ends; _heartbeat_loop goes back to asyncio.sleep(interval)
check_agent_status_return ==
    /\ monitor = "scanning"
    /\ sweepCur = {}
    /\ sweepTodo \cap DOMAIN agents = {}
    /\ monitor' = "sleeping"
    /\ sweepDue' = now + heartbeat_interval
    /\ sweepTodo' = {}
    /\ sweepNow' = 0
    /\ sweepSeen' = 0
    /\ lastOp' = Op("sweep", "-", TRUE)
    /\ UNCHANGED <<registry, now, sweepCur>>

\* d seconds pass, up to the horizon.  A sleeping monitor wakes when its sleep
\* is over, so time does not pass beyond sweepDue before the sweep; synchronous
\* code takes no time.
Tick(d, horizon) ==
    /\ Schedulable
    /\ now + d <= horizon
    /\ monitor = "sleeping" => now + d <= sweepDue
    /\ now' = now + d
    /\ lastOp' = Op("tick", "-", TRUE)
    /\ UNCHANGED <<registry, sweeper>>

----------------------------------------------------------------------------
(* AgentCommunicator *)

\* What one outbound HTTP request can come to: a 2xx answer with a JSON body,
\* a timeout, a connection failure, a non-2xx status (raise_for_status), a
\* body response.json() cannot parse.
NetOutcomes == {"ok", "timeout", "connect_error", "http_status", "bad_body"}

\* The result of a communicator call: the error it reports (None on success;
\* otherwise the text the code puts before or instead of the exception's own
\* str(e), "" when it reports str(e) alone), the number of requests it sent,
\* what the request came to and the X-API-Key header it carried.
CommResult(error, net, out, key) ==
    [error |-> error, net |-> net, out |-> out, key |-> key]

\* Faulty variant: the unknown agent is reported after a request was tried.
agent_not_found_late == CommResult(Some("Agent not found"), 1, "connect_error", None)

\* The early return of every communicator method for an unknown agent.
agent_not_found == CommResult(Some("Agent not found"), 0, "", None)

\* Faulty variant: the header is left out.
get_headers_none(id) == None

\* _get_headers: the X-API-Key header, present when a key is stored.
get_headers(id) ==
    IF Truthy(get_agent_api_key(id)) THEN get_agent_api_key(id) ELSE None

\* Faulty variant: the request is sent again after a timeout.
attempts_retry(outcome) == IF outcome = "timeout" THEN 2 ELSE 1

\* The requests one try block sends: a single self._client.get/post call, with
\* no loop around it.
attempts(outcome) == 1

\* self._client.get/post(...), raise_for_status(), response.json() in the
\* try block of get_vm_list, get_vm_info, create_vm and vm_action: every
\* exception ends in `except Exception` as {"error": str(e)}.
send_request(id, outcome) ==
    CommResult(IF outcome = "ok" THEN None ELSE Some(""), attempts(outcome),
               outcome, get_headers(id))

\* The except clauses of execute_command.  httpx.TimeoutException is caught
\* first; ConnectError and the HTTPStatusError of raise_for_status are both
\* httpx.HTTPError; what the parsing of the body raises is neither.
execute_error(outcome) ==
    CASE outcome = "timeout"       -> "Request timeout"
      [] outcome = "connect_error" -> "HTTP error"
      [] outcome = "http_status"   -> "HTTP error"
      [] outcome = "bad_body"      -> "Unexpected error"

comm_execute_command(id, outcome) ==
    IF get_agent(id) = None THEN agent_not_found
    ELSE IF get_agent(id)[1].status # "online"
         THEN CommResult(Some("Agent is offline"), 0, "", None)
         ELSE CommResult(IF outcome = "ok" THEN None
                         ELSE Some(execute_error(outcome)),
                         attempts(outcome), outcome, get_headers(id))

comm_get_vm_list(id, outcome) ==
    IF get_agent(id) = None THEN agent_not_found
    ELSE send_request(id, outcome)

comm_get_vm_info(id, outcome) ==
    IF get_agent(id) = None THEN agent_not_found
    ELSE send_request(id, outcome)

comm_create_vm(id, outcome) ==
    IF get_agent(id) = None THEN agent_not_found
    ELSE send_request(id, outcome)

comm_vm_action(id, action, outcome) ==
    IF get_agent(id) = None THEN agent_not_found
    ELSE send_request(id, outcome)

\* health_check returns a bool: False for an unknown agent and for every
\* exception, otherwise status_code == 200; the body is not read.
comm_health_check(id, outcome) ==
    IF get_agent(id) = None THEN CommResult(Some(""), 0, "", None)
    ELSE CommResult(IF outcome \in {"ok", "bad_body"} THEN None ELSE Some(""),
                    attempts(outcome), outcome, get_headers(id))

\* The methods of AgentCommunicator that are called directly.
DirectOps == {"execute_command", "health_check"}

\* communicator.execute_command(agent_id, ...) / communicator.health_check(agent_id)
communicator(op, id, outcome) ==
    /\ Schedulable
    /\ LET r == IF op = "execute_command" THEN comm_execute_command(id, outcome)
                ELSE comm_health_check(id, outcome) IN
       lastOp' = [NoOp EXCEPT !.op = op, !.id = id, !.ret = (r.error = None),
                              !.net = r.net, !.out = r.out, !.key = r.key,
                              !.err = IF r.error = None THEN "" ELSE r.error[1],
                              !.calls = <<id>>]
    /\ UNCHANGED <<registry, now, sweeper>>

----------------------------------------------------------------------------
(* The Command Runner: run_multipass_command on the master and on the agent *)

Hosts == {"master", "agent"}

\* What one run of the multipass tool can come to: exit 0, exit 0 with output
\* that is not JSON, a non-zero exit, no multipass binary (FileNotFoundError),
\* another failure to start it (an OSError such as PermissionError), exit 0
\* after SlowRun seconds, no exit at all.
ToolOutcomes == {"exit0", "garbage", "nonzero", "missing", "spawn_error", "slow", "hang"}

\* subprocess.run(..., timeout=...): the agent's runner passes 300, the
\* master's passes none.
run_timeout(host) == IF host = "agent" THEN Some(command_timeout) ELSE None

\* The tool's stderr, by the first argument it was run with.
stderr(arg) ==
    CASE arg = "delete" -> "stderr of delete"
      [] arg = "purge"  -> "stderr of purge"
      [] OTHER          -> "stderr"

\* What the runner hands to its caller: a result dict (how = "value"), an
\* exception (how = "raised"), or nothing because it never returns.
RunResult(how, success, output, error, took) ==
    [how |-> how, success |-> success, output |-> output, error |-> error,
     took |-> took]

timed_out == "Command timed out after 5 minutes"

not_installed == "multipass command not found. Is multipass installed?"

\* A tool that needs d seconds (None: it never exits) and then exits 0, under
\* the runner of the host.
run_for(host, d) ==
    LET limit == run_timeout(host) IN
    IF limit # None /\ (d = None \/ d[1] > limit[1])
    THEN RunResult("value", FALSE, "", timed_out, limit[1])
    ELSE IF d = None THEN RunResult("never", FALSE, "", "", 0)
         ELSE RunResult("value", TRUE, "json", "", d[1])

\* run_multipass_command(args): try subprocess.run(check=True), except
\* CalledProcessError, (agent: TimeoutExpired,) FileNotFoundError.
run_multipass_command(host, arg, outcome) ==
    CASE outcome = "exit0"       -> RunResult("value", TRUE, "json", "", QuickRun)
      [] outcome = "garbage"     -> RunResult("value", TRUE, "text", "", QuickRun)
      [] outcome = "nonzero"     -> RunResult("value", FALSE, "", stderr(arg), QuickRun)
      [] outcome = "missing"     -> RunResult("value", FALSE, "", not_installed, 0)
      [] outcome = "spawn_error" -> RunResult("raised", FALSE, "", "PermissionError", 0)
      [] outcome = "slow"        -> run_for(host, Some(SlowRun))
      [] outcome = "hang"        -> run_for(host, None)

----------------------------------------------------------------------------
(* LocalVMExecutor (master) and AgentExecutor (agent): the same methods over *)
(* the host's own runner                                                    *)

\* The operations of the VMExecutor interface.
ExecutorOps == {"list_vms", "get_vm_info", "create_vm", "start_vm", "stop_vm", "delete_vm"}

\* The first argument the operation runs the tool with.
tool_arg(op) ==
    CASE op = "list_vms"    -> "list"
      [] op = "get_vm_info" -> "info"
      [] op = "create_vm"   -> "launch"
      [] op = "start_vm"    -> "start"
      [] op = "stop_vm"     -> "stop"
      [] op = "delete_vm"   -> "delete"

\* What an executor method hands back: how (as for the runner), success, the
\* text under "error" or "message", the runs of the tool, what each came to
\* and their time.
ExecResult(how, success, text, runs, outs, took) ==
    [how |-> how, success |-> success, text |-> text, runs |-> runs, outs |-> outs,
     took |-> took]

\* list_vms / get_vm_info: json.loads of the output of a successful run.
exec_query(host, op, o1) ==
    LET r == run_multipass_command(host, tool_arg(op), o1) IN
    IF r.how # "value" THEN ExecResult(r.how, FALSE, r.error, <<tool_arg(op)>>, <<o1>>, r.took)
    ELSE IF r.success
         THEN (IF r.output = "json"
               THEN ExecResult("value", TRUE, "", <<tool_arg(op)>>, <<o1>>, r.took)
               ELSE ExecResult("value", FALSE, "Failed to parse JSON", <<tool_arg(op)>>, <<o1>>, r.took))
         ELSE ExecResult("value", FALSE, r.error, <<tool_arg(op)>>, <<o1>>, r.took)

\* create_vm / start_vm / stop_vm: success and output-or-error of one run.
exec_single(host, op, o1) ==
    LET r == run_multipass_command(host, tool_arg(op), o1) IN
    IF r.how # "value" THEN ExecResult(r.how, FALSE, r.error, <<tool_arg(op)>>, <<o1>>, r.took)
    ELSE ExecResult("value", r.success, IF r.success THEN r.output ELSE r.error,
                    <<tool_arg(op)>>, <<o1>>, r.took)

\* Faulty variant: purge is run whatever the delete step came to.
exec_delete_purge_always(host, o1, o2) ==
    LET r == run_multipass_command(host, "delete", o1)
        q == run_multipass_command(host, "purge", o2) IN
    IF r.how # "value" THEN ExecResult(r.how, FALSE, r.error, <<"delete">>, <<o1>>, r.took)
    ELSE IF q.how # "value"
         THEN ExecResult(q.how, FALSE, q.error, <<"delete", "purge">>, <<o1, o2>>, r.took + q.took)
         ELSE ExecResult("value", r.success /\ q.success,
                         IF r.success /\ q.success THEN "VM deleted and purged"
                         ELSE IF r.success THEN q.error ELSE r.error,
                         <<"delete", "purge">>, <<o1, o2>>, r.took + q.took)

\* delete_vm: `delete <name>`, and `purge` if that succeeded.
exec_delete(host, o1, o2) ==
    LET r == run_multipass_command(host, "delete", o1)
        q == run_multipass_command(host, "purge", o2) IN
    IF r.how # "value" THEN ExecResult(r.how, FALSE, r.error, <<"delete">>, <<o1>>, r.took)
    ELSE IF r.success
         THEN (IF q.how # "value"
               THEN ExecResult(q.how, FALSE, q.error, <<"delete", "purge">>, <<o1, o2>>, r.took + q.took)
               ELSE ExecResult("value", q.success,
                               IF q.success THEN "VM deleted and purged" ELSE q.error,
                               <<"delete", "purge">>, <<o1, o2>>, r.took + q.took))
         ELSE ExecResult("value", FALSE, r.error, <<"delete">>, <<o1>>, r.took)

host_executor(host, op, o1, o2) ==
    CASE op \in {"list_vms", "get_vm_info"}           -> exec_query(host, op, o1)
      [] op \in {"create_vm", "start_vm", "stop_vm"}  -> exec_single(host, op, o1)
      [] op = "delete_vm"                             -> exec_delete(host, o1, o2)

\* The record of an executor method's call in lastOp.
exec_op(op, x) ==
    [NoOp EXCEPT !.op = op, !.ret = x.success, !.runs = x.runs, !.outs = x.outs,
                 !.took = x.took,
                 !.err = IF x.how = "value" /\ ~x.success THEN x.text ELSE "",
                 !.exc = IF x.how = "raised" THEN x.text ELSE ""]

\* LocalVMExecutor().<op>() in a route handler of the master.  A run that
\* never returns leaves the master's event loop inside subprocess.run.
local_executor(op, o1, o2) ==
    /\ Schedulable
    /\ LET x == host_executor("master", op, o1, o2) IN
       /\ lastOp' = [exec_op(op, x) EXCEPT !.exe = "local"]
       /\ blocked' = IF x.how = "never" THEN blocked \cup {"master"} ELSE blocked
    /\ UNCHANGED <<registry, now, sweeper>>

----------------------------------------------------------------------------
(* RemoteVMExecutor and ExecutorFactory *)

\* RemoteVMExecutor(agent_id, communicator).<op>: the communicator call the
\* method makes.
remote_call(op, id, outcome) ==
    CASE op = "list_vms"    -> comm_get_vm_list(id, outcome)
      [] op = "get_vm_info" -> comm_get_vm_info(id, outcome)
      [] op = "create_vm"   -> comm_create_vm(id, outcome)
      [] op = "start_vm"    -> comm_vm_action(id, "start", outcome)
      [] op = "stop_vm"     -> comm_vm_action(id, "stop", outcome)
      [] op = "delete_vm"   -> comm_vm_action(id, "delete", outcome)

\* A route handler runs executor.<op>() on a RemoteVMExecutor:
\* `if "error" in result` gives success False.
remote_executor(op, id, outcome) ==
    /\ Schedulable
    /\ LET r == remote_call(op, id, outcome) IN
       lastOp' = [NoOp EXCEPT !.op = op, !.id = id, !.ret = (r.error = None),
                              !.net = r.net, !.out = r.out, !.key = r.key,
                              !.err = IF r.error = None THEN "" ELSE r.error[1],
                              !.exe = "remote", !.calls = <<id>>]
    /\ UNCHANGED <<registry, now, sweeper>>

\* Faulty variant: get_executor tests the id's truthiness.
is_local_falsy(agent_id) == ~Truthy(agent_id)

\* get_executor: `if agent_id is None`.
is_local(agent_id) == agent_id = None

\* factory.get_executor(agent_id).<op>()
executor(agent_id, op, outcome, o1, o2) ==
    IF is_local(agent_id)
    THEN local_executor(op, o1, o2)
    ELSE remote_executor(op, agent_id[1], outcome) /\ UNCHANGED blocked

----------------------------------------------------------------------------
(* The agent process: configuration and HTTP endpoints *)

\* main(): CONFIG["api_key"] = args.api_key, before the server starts.
agent_main(key) ==
    /\ \A s \in Sessions : sess[s].host = "agent" => sess[s].state = "closed"
    /\ CONFIG' = [CONFIG EXCEPT !.api_key = key]
    /\ lastOp' = Op("main", "-", TRUE)
    /\ UNCHANGED <<blocked, uplink, listing, terminal>>

\* verify_api_key: the dependency of the HTTP endpoints.
verify_api_key(x_api_key) ==
    IF CONFIG.api_key = None THEN TRUE
    ELSE ~(x_api_key = None \/ x_api_key # CONFIG.api_key)

\* The endpoints declared with Depends(verify_api_key): /api/execute and
\* /api/vm/{list,info,create,start,stop,delete}, the latter named by the
\* executor method they call.
AgentEndpoints == ExecutorOps \cup {"execute"}

\* /api/execute: executor.run_multipass_command(request.args) inside
\* try/except Exception; always answered 200.
endpoint_execute(o1) ==
    LET r == run_multipass_command("agent", "args", o1) IN
    [exec_op("execute", ExecResult(r.how, r.success, r.error, <<"args">>, <<o1>>, r.took))
        EXCEPT !.code = 200]

\* /api/vm/...: the executor method inside try/except Exception; a failure
\* and an exception are answered 500.
endpoint_vm(ep, o1, o2) ==
    LET x == host_executor("agent", ep, o1, o2) IN
    [exec_op(ep, x) EXCEPT !.code = IF x.how = "value" /\ x.success THEN 200 ELSE 500]

\* A request to an endpoint of the agent, carrying the header x_api_key.
agent_endpoint(ep, x_api_key, o1, o2) ==
    /\ Free("agent")
    /\ lastOp' =
          IF ~verify_api_key(x_api_key)
          THEN [NoOp EXCEPT !.op = ep, !.ret = FALSE, !.code = 403, !.exe = "agent",
                            !.key = x_api_key, !.err = "Invalid or missing API key"]
          ELSE [(IF ep = "execute" THEN endpoint_execute(o1) ELSE endpoint_vm(ep, o1, o2))
                   EXCEPT !.exe = "agent", !.key = x_api_key]
    /\ UNCHANGED <<blocked, CONFIG, uplink, listing, terminal>>

----------------------------------------------------------------------------
(* A remote operation end to end: RemoteVMExecutor, AgentCommunicator and   *)
(* the agent's endpoint                                                     *)

\* The answer of an agent endpoint: the status code and the detail of the
\* error body.  An endpoint raises HTTPException(first, detail=text) inside
\* its own try block when the executor reports a failure (first is 404 for
\* info, 500 otherwise); its `except Exception` catches that exception like
\* any other and raises HTTPException(500, detail=str(e)) in its place.
Response(code, first, text) == [code |-> code, first |-> first, text |-> text]

agent_response(ep, x_api_key, o1, o2) ==
    LET x == host_executor("agent", ep, o1, o2) IN
    IF ~verify_api_key(x_api_key) THEN Response(403, 403, "Invalid or missing API key")
    ELSE IF x.how = "value" /\ x.success THEN Response(200, 200, "")
    ELSE IF x.how = "value"
         THEN Response(500, IF ep = "get_vm_info" THEN 404 ELSE 500, x.text)
         ELSE Response(500, 500, x.text)

\* str(e) of the httpx.HTTPStatusError that response.raise_for_status()
\* raises: the status line and the url, nothing of the body.
status_error(code) ==
    IF code >= 500 THEN "Server error '500 Internal Server Error' for url"
    ELSE "Client error '403 Forbidden' for url"

\* RemoteVMExecutor(id).<op>() against a reachable agent: the communicator
\* method sends the request with the stored key, the agent's endpoint runs
\* its executor and answers, raise_for_status() and `except Exception` turn
\* a non-2xx answer into {"error": str(e)}, and the executor method turns
\* that into success False with the same text.
remote_operation(op, id, o1, o2) ==
    /\ Schedulable
    /\ Free("agent")
    /\ LET h == get_headers(id)
           r == agent_response(op, h, o1, o2)
           x == host_executor("agent", op, o1, o2)
           ran == verify_api_key(h) IN
       lastOp' =
          IF get_agent(id) = None
          THEN [NoOp EXCEPT !.op = op, !.id = id, !.ret = FALSE,
                            !.err = "Agent not found", !.exe = "remote",
                            !.calls = <<id>>]
          ELSE [NoOp EXCEPT !.op = op, !.id = id, !.ret = (r.code = 200),
                            !.net = attempts("ok"),
                            !.out = IF r.code = 200 THEN "ok" ELSE "http_status",
                            !.key = h,
                            !.err = IF r.code = 200 THEN "" ELSE status_error(r.code),
                            !.exe = "remote", !.calls = <<id>>,
                            !.runs = IF ran THEN x.runs ELSE << >>,
                            !.outs = IF ran THEN x.outs ELSE << >>,
                            !.took = IF ran THEN x.took ELSE 0,
                            !.code = r.code]
    /\ UNCHANGED <<registry, now, sweeper>>

----------------------------------------------------------------------------
(* The VM listing route: GET /api/vm/list on the master *)

\* The loop over the agents is left, and the route returns
\* {"success": True, "vms": all_vms}, when no agent remains.
list_vms_next(l) == IF l.todo = {} THEN [l EXCEPT !.pc = "answered"] ELSE l

\* list_vms up to its first suspension: check_auth, the local executor's
\* list_vms inside try/except Exception (subprocess.run, no suspension), then
\* agents = agent_registry.get_online_agents().
list_vms_call(authed, o1) ==
    /\ listing.pc \in {"idle", "answered"}
    /\ Schedulable
    /\ IF ~authed
       THEN /\ lastOp' = [Op("list_vms_route", "-", FALSE) EXCEPT
                             !.code = 401, !.err = "Not authenticated"]
            /\ UNCHANGED <<listing, blocked>>
       ELSE LET x == host_executor("master", "list_vms", o1, "exit0")
                ok == x.how = "value" /\ x.success
                online == {a.agent_id : a \in get_online_agents} IN
            /\ listing' =
                  IF x.how = "never" THEN [NoListing EXCEPT !.pc = "local"]
                  ELSE list_vms_next([pc |-> "agents", online |-> online,
                                      todo |-> online,
                                      vms |-> IF ok THEN {None} ELSE {},
                                      failed |-> IF ok THEN {} ELSE {None}])
            /\ blocked' = IF x.how = "never" THEN blocked \cup {"master"} ELSE blocked
            /\ lastOp' = [exec_op("list_vms", x) EXCEPT !.exe = "local"]
    /\ UNCHANGED <<registry, now, sweeper>>

\* One turn of `for agent in agents`: get_executor(agent.agent_id).list_vms()
\* inside try/except Exception, the VMs appended on success.
list_vms_agent(id, outcome) ==
    /\ listing.pc = "agents"
    /\ id \in listing.todo
    /\ Schedulable
    /\ LET r == remote_call("list_vms", id, outcome)
           ok == r.error = None IN
       /\ listing' = list_vms_next(
              [listing EXCEPT !.todo = @ \ {id},
                              !.vms = IF ok THEN @ \cup {Some(id)} ELSE @,
                              !.failed = IF ok THEN @ ELSE @ \cup {Some(id)}])
       /\ lastOp' = [NoOp EXCEPT !.op = "list_vms", !.id = id, !.ret = ok,
                                 !.net = r.net, !.out = r.out, !.key = r.key,
                                 !.err = IF ok THEN "" ELSE r.error[1],
                                 !.exe = "remote", !.calls = <<id>>]
    /\ UNCHANGED <<registry, now, sweeper, blocked>>

----------------------------------------------------------------------------
(* Terminal sessions: handle_terminal_connection on the master and         *)
(* websocket_terminal (/ws) on the agent.  The local path of the master     *)
(* and the agent's handler are the same code.                               *)

\* A handler's locals and its two peers.  state is the handler's position:
\* "connecting" (in ws.accept), "active" (in its loops), "closing" (in its
\* except clause, sending the error line), "closed" (returned, or never
\* started).  peer is the client's end of ws, agent the agent's end of
\* remote_ws.  sent, agent_sent: the frames the client and the agent sent so
\* far; rx, tx: the frames the handler sent to the client and to the agent.
\* pty is the PTY that openpty gave (0: none), nread the chunks the read task
\* took from it, signals what was sent to the shell.
NoSession ==
    [state |-> "closed", path |-> "-", host |-> "-", key |-> None,
     vm_name |-> None, agent_id |-> None, peer |-> "none",
     master_fd |-> None, pty |-> 0, proc |-> "none", read_task |-> "none",
     nread |-> 0, signals |-> << >>, error |-> "",
     remote_ws |-> "none", agent |-> "none",
     to_remote |-> "none", from_remote |-> "none",
     sent |-> << >>, agent_sent |-> << >>, rx |-> << >>, tx |-> << >>]

\* A frame on a websocket: text or binary, its payload, and the PTY whose
\* output it carries (0: none).
WireFrame(kind, data, src) == [kind |-> kind, data |-> data, src |-> src]

\* ws.send_text(line)
Line(text) == WireFrame("text", text, 0)

\* The descriptors a process can hold besides its standard streams.
Fds == 3..MaxFd

\* The PTYs the two hosts can have open.
PtyIds == 1..(2 * MaxFd)

Min(S) == CHOOSE x \in S : \A y \in S : x <= y

\* pty.openpty(): the two lowest free descriptors, primary first; None when
\* the table has not two free ones and openpty raises OSError.
openpty(table) ==
    LET free == Fds \ DOMAIN table IN
    IF Cardinality(free) < 2 THEN None
    ELSE Some(<<Min(free), Min(free \ {Min(free)})>>)

\* The PTY a new pair belongs to: one that no descriptor refers to.
new_pty ==
    Min(PtyIds \ {fds[h][d].pty : <<h, d>> \in {x \in Hosts \X Fds : x[2] \in DOMAIN fds[x[1]]}})

\* A descriptor of a PTY: its side.
Descriptor(p, side) == [pty |-> p, side |-> side]

\* Faulty variant: master_fd is a module-level name that the handlers share.
handle_shared(s) ==
    IF sess[1].master_fd # None THEN sess[1].master_fd ELSE sess[s].master_fd

\* master_fd is a local of the handler: each call has its own.
handle(s) == sess[s].master_fd

\* The PTY behind the handler's master_fd, 0 when the descriptor is not open.
pty_of(s) ==
    IF handle(s) # None /\ handle(s)[1] \in DOMAIN fds[sess[s].host]
    THEN fds[sess[s].host][handle(s)[1]].pty ELSE 0

\* `if agent_id:` (websocket.py:38); the agent's /ws has no agent_id.
routes_remote(host, agent_id) == host = "master" /\ Truthy(agent_id)

\* await ws.accept(): a connection request with its query parameters and its
\* X-API-Key header, which neither handler looks at.
terminal_accept(s, host, vm_name, agent_id, x_api_key) ==
    /\ Free(host)
    /\ host = "master" => Schedulable
    /\ sess[s].state = "closed"
    /\ sess' = [sess EXCEPT ![s] =
                   [NoSession EXCEPT !.state = "connecting", !.host = host,
                                     !.path = IF routes_remote(host, agent_id)
                                              THEN "remote" ELSE "local",
                                     !.vm_name = vm_name, !.agent_id = agent_id,
                                     !.key = x_api_key, !.peer = "connected"]]
    /\ lastOp' = [NoOp EXCEPT !.op = "accept", !.sid = s, !.exe = host, !.key = x_api_key]
    /\ UNCHANGED <<blocked, CONFIG, uplink, listing, fds, pty_size, pty_in, pty_out>>

\* ws.send_text / ws.send_bytes: what the client has received afterwards.
\* Sending to a client that is gone raises.
ws_send(x, frame) == IF x.peer = "connected" THEN Append(x.rx, frame) ELSE x.rx

\* `if not vm_name`: the error line and ws.close().
terminal_reject(s) ==
    /\ sess[s].state = "connecting"
    /\ Free(sess[s].host)
    /\ ~Truthy(sess[s].vm_name)
    /\ sess' = [sess EXCEPT ![s].state = "closed",
                            ![s].rx = ws_send(sess[s], Line("Error: VM name is required"))]
    /\ lastOp' = [NoOp EXCEPT !.op = "reject", !.sid = s, !.ret = FALSE,
                              !.err = "Error: VM name is required"]
    /\ UNCHANGED <<blocked, CONFIG, uplink, listing, fds, pty_size, pty_in, pty_out>>

\* The local handler up to its receive loop: openpty, Popen(["multipass",
\* "shell", vm_name]) on the secondary side, os.close(slave_fd), the read
\* task.  When openpty or Popen raises the handler goes to its except clause
\* with what it had assigned so far.
terminal_connect(s, spawn) ==
    LET x == sess[s]
        table == fds[x.host]
        pair == openpty(table)
        p == new_pty
    IN
    /\ x.state = "connecting"
    /\ x.path = "local"
    /\ Truthy(x.vm_name)
    /\ Free(x.host)
    /\ IF pair = None
       THEN /\ sess' = [sess EXCEPT ![s].state = "closing", ![s].error = "OSError"]
            /\ UNCHANGED <<fds, pty_size, pty_in, pty_out>>
       ELSE /\ pty_size' = [pty_size EXCEPT ![p] = <<0, 0>>]
            /\ pty_in' = [pty_in EXCEPT ![p] = << >>]
            /\ pty_out' = [pty_out EXCEPT ![p] = << >>]
            /\ IF spawn = "ok"
               THEN /\ fds' = [fds EXCEPT ![x.host] =
                                  dict_set(table, pair[1][1], Descriptor(p, "primary"))]
                    /\ sess' = [sess EXCEPT ![s].state = "active",
                                            ![s].master_fd = Some(pair[1][1]),
                                            ![s].pty = p,
                                            ![s].proc = "running",
                                            ![s].read_task = "running"]
               ELSE /\ fds' = [fds EXCEPT ![x.host] =
                                  dict_set(dict_set(table, pair[1][1], Descriptor(p, "primary")),
                                           pair[1][2], Descriptor(p, "secondary"))]
                    /\ sess' = [sess EXCEPT ![s].state = "closing",
                                            ![s].master_fd = Some(pair[1][1]),
                                            ![s].pty = p,
                                            ![s].error = "FileNotFoundError"]
    /\ lastOp' = [NoOp EXCEPT !.op = "connect", !.sid = s,
                              !.ret = (pair # None /\ spawn = "ok"),
                              !.exe = x.host, !.key = x.key,
                              !.exc = IF pair = None THEN "OSError"
                                      ELSE IF spawn = "ok" THEN "" ELSE "FileNotFoundError"]
    /\ UNCHANGED <<blocked, CONFIG, uplink, listing>>

\* What os.close(master_fd) and proc.terminate() / proc.wait(timeout=2) of
\* the finally block can come to.
CloseOutcomes == {"ok", "raises"}

TermOutcomes == {"exits", "ignores", "raises"}

\* The finally block on the shell: terminate and wait; kill when terminate
\* raises or the wait times out.  A shell that has exited gets no signal.
stop_proc(x, k) ==
    CASE x.proc # "running" -> [proc |-> x.proc, signals |-> x.signals]
      [] k = "exits"   -> [proc |-> "terminated", signals |-> <<"SIGTERM">>]
      [] k = "ignores" -> [proc |-> "killed", signals |-> <<"SIGTERM", "SIGKILL">>]
      [] k = "raises"  -> [proc |-> "killed", signals |-> <<"SIGKILL">>]

\* Faulty variant: os.close is not guarded, so what follows it is skipped
\* when it raises.
cleanup_unguarded(s, c, k) ==
    LET x == sess[s]
        after == IF c = "raises" THEN [proc |-> x.proc, signals |-> x.signals]
                 ELSE stop_proc(x, k)
    IN
    [x EXCEPT !.state = "closed", !.sent = << >>, !.nread = 0,
              !.error = IF c = "raises" THEN "OSError" ELSE "",
              !.read_task = IF x.read_task = "running" THEN "cancelled" ELSE x.read_task,
              !.proc = after.proc, !.signals = after.signals]

\* The finally block: read_task.cancel(), os.close(master_fd), the shell.
\* With the handler its record of what the client sent is gone; error is the
\* exception that leaves the handler, none as each release has its own
\* try/except.
cleanup(s, c, k) ==
    LET x == sess[s] IN
    [x EXCEPT !.state = "closed", !.sent = << >>, !.nread = 0, !.error = "",
              !.read_task = IF x.read_task = "running" THEN "cancelled" ELSE x.read_task,
              !.proc = stop_proc(x, k).proc, !.signals = stop_proc(x, k).signals]

\* The descriptor table after the finally block: os.close(master_fd) releases
\* the descriptor, also when it reports an error.
closed_fds(s) ==
    LET table == fds[sess[s].host] IN
    IF handle(s) # None /\ handle(s)[1] \in DOMAIN table
    THEN [fds EXCEPT ![sess[s].host] = dict_del(table, handle(s)[1])]
    ELSE fds

\* os.close(master_fd) was the last descriptor of the PTY in the process and
\* the shell is stopped: the PTY is gone.
pty_gone(s) ==
    /\ pty_of(s) # 0
    /\ \A d \in DOMAIN closed_fds(s)[sess[s].host] :
          closed_fds(s)[sess[s].host][d].pty # pty_of(s)

\* What the finally block leaves of the descriptors and the PTYs.
release(s) ==
    /\ fds' = closed_fds(s)
    /\ pty_size' = IF pty_gone(s) THEN [pty_size EXCEPT ![pty_of(s)] = <<0, 0>>] ELSE pty_size
    /\ pty_in' = IF pty_gone(s) THEN [pty_in EXCEPT ![pty_of(s)] = << >>] ELSE pty_in
    /\ pty_out' = IF pty_gone(s) THEN [pty_out EXCEPT ![pty_of(s)] = << >>] ELSE pty_out

\* The ways the finally block can go.
Tears == CloseOutcomes \X TermOutcomes

\* The ways a frame's step can go: the finally block runs only when os.write
\* raises.
TearsOf(w) == IF w \in {"again", "eio"} THEN Tears ELSE {<<"ok", "exits">>}

\* The record of a step that ran the finally block.
Torn(op, s, c, k) == [NoOp EXCEPT !.op = op, !.sid = s, !.outs = <<c, k>>]

\* A JSON value of a frame's object: a number, a string or null.
JNum(n) == [t |-> "num", n |-> n, s |-> << >>]

JStr(s) == [t |-> "str", n |-> 0, s |-> s]

JNull == [t |-> "null", n |-> 0, s |-> << >>]

Digits == <<"0", "1", "2", "3", "4", "5", "6", "7", "8", "9">>

IsDigit(c) == \E i \in DOMAIN Digits : Digits[i] = c

DigitValue(c) == (CHOOSE i \in DOMAIN Digits : Digits[i] = c) - 1

\* The value of a sequence of decimal digits.
RECURSIVE digits_value(_)
digits_value(s) ==
    IF s = << >> THEN 0
    ELSE 10 * digits_value(SubSeq(s, 1, Len(s) - 1)) + DigitValue(s[Len(s)])

\* int(x) on a JSON value: None where Python raises (ValueError, TypeError).
to_int(v) ==
    CASE v.t = "num"  -> Some(v.n)
      [] v.t = "str"  -> IF v.s # << >> /\ \A i \in DOMAIN v.s : IsDigit(v.s[i])
                         THEN Some(digits_value(v.s)) ELSE None
      [] v.t = "null" -> None

\* struct.pack("H", n) raises struct.error outside 0..65535.
fits_ushort(n) == 0 <= n /\ n <= USHRT_MAX

\* What json.loads(msg) gives: kind "invalid" when it raises, "array" for a
\* JSON value without .get, "object" for a dict with its "type" and its
\* "cols" / "rows" members (None when the key is missing).
Json(kind, type, cols, rows) == [kind |-> kind, type |-> type, cols |-> cols, rows |-> rows]

\* A client text frame: its text and what json.loads makes of that text.  The
\* text stands for its UTF-8 bytes: those of the frame on the wire and those
\* msg.encode() gives.
Frame(text, json) == [text |-> text, json |-> json]

\* The try block of the receive loop: the window size the frame sets, None
\* when the block raises or the frame is no resize command and the loop goes
\* on to os.write.
resize_of(f) ==
    IF f.json.kind # "object" THEN None
    ELSE IF f.json.type # Some("resize") THEN None
    ELSE IF f.json.cols = None \/ f.json.rows = None THEN None
    ELSE LET cols == to_int(f.json.cols[1])
             rows == to_int(f.json.rows[1]) IN
         IF cols = None \/ rows = None THEN None
         ELSE IF fits_ushort(rows[1]) /\ fits_ushort(cols[1])
              THEN Some(<<rows[1], cols[1]>>) ELSE None

\* What the receive loop writes to master_fd for a frame: nothing after
\* `continue`, msg.encode() otherwise.
typed_after(f) == IF resize_of(f) # None THEN << >> ELSE <<f.text>>

\* What os.write on the non-blocking master_fd can come to: all bytes taken,
\* only the first of them taken (the count it returns is dropped),
\* BlockingIOError when the PTY's input queue is full, EIO when the secondary
\* side is closed.  The last two are OSError.
WriteOutcomes == {"all", "short", "again", "eio"}

\* The outcomes the state of the shell allows.
can_write(x, w) == IF x.proc = "running" THEN w # "eio" ELSE w \in {"all", "eio"}

\* What a write put on the PTY: the session that wrote, the frame's bytes,
\* and whether all of them arrived.
Written(s, data, whole) == [by |-> s, data |-> data, whole |-> whole]

\* Faulty variant: what a loop passes on goes in front of what was passed on
\* before.
deliver_front(q, frame) == <<frame>> \o q

\* A loop sends each frame it has taken before it takes the next one.
deliver(q, frame) == Append(q, frame)

\* One iteration of the receive loop: msg = await ws.receive_text(), the
\* resize try block, os.write(master_fd, msg.encode()); on OSError the loop
\* ends and the finally block runs.
receive_frame(s, f, w, c, k) ==
    LET x == sess[s]
        p == pty_of(s)
        size == resize_of(f)
        seen == [sess EXCEPT ![s].sent = Append(x.sent, WireFrame("text", f.text, 0))]
    IN
    /\ x.state = "active"
    /\ x.path = "local"
    /\ x.peer = "connected"
    /\ Free(x.host)
    /\ p # 0
    /\ Len(x.sent) < MaxFrames
    /\ can_write(x, w)
    /\ IF size # None
       THEN /\ pty_size' = [pty_size EXCEPT ![p] = size[1]]
            /\ sess' = seen
            /\ lastOp' = [NoOp EXCEPT !.op = "frame", !.sid = s, !.out = f.text]
            /\ UNCHANGED <<pty_in, pty_out, fds>>
       ELSE IF w \in {"all", "short"}
            THEN /\ pty_in' = [pty_in EXCEPT ![p] = deliver(@, Written(s, f.text, w = "all"))]
                 /\ sess' = seen
                 /\ lastOp' = [NoOp EXCEPT !.op = "frame", !.sid = s, !.out = f.text]
                 /\ UNCHANGED <<pty_size, pty_out, fds>>
            ELSE /\ sess' = [sess EXCEPT ![s] = cleanup(s, c, k)]
                 /\ release(s)
                 /\ lastOp' = [Torn("frame", s, c, k) EXCEPT !.ret = FALSE, !.out = f.text,
                                                         !.exc = "OSError"]
    /\ UNCHANGED <<blocked, CONFIG, uplink, listing>>

\* A binary frame from the client: ws.receive_text() raises (the message has
\* no text), which the handler's `except Exception` takes.
receive_bytes(s) ==
    LET x == sess[s] IN
    /\ x.state = "active"
    /\ x.path = "local"
    /\ x.peer = "connected"
    /\ Free(x.host)
    /\ Len(x.sent) < MaxFrames
    /\ sess' = [sess EXCEPT ![s].state = "closing", ![s].error = "KeyError",
                            ![s].sent = Append(x.sent, WireFrame("binary", "^C", 0))]
    /\ lastOp' = [NoOp EXCEPT !.op = "frame", !.sid = s, !.ret = FALSE, !.exc = "KeyError"]
    /\ UNCHANGED <<blocked, CONFIG, uplink, listing, fds, pty_size, pty_in, pty_out>>

\* The client goes away: its end of the connection closes.
client_close(s) ==
    /\ sess[s].peer = "connected"
    /\ sess[s].state # "closed"
    /\ sess' = [sess EXCEPT ![s].peer = "gone"]
    /\ lastOp' = [NoOp EXCEPT !.op = "client_close", !.sid = s]
    /\ UNCHANGED <<blocked, CONFIG, uplink, listing, fds, pty_size, pty_in, pty_out>>

\* ws.receive_text() raises WebSocketDisconnect: `except WebSocketDisconnect:
\* pass` and the finally block.
terminal_disconnect(s, c, k) ==
    /\ sess[s].state = "active"
    /\ sess[s].path = "local"
    /\ sess[s].peer = "gone"
    /\ Free(sess[s].host)
    /\ sess' = [sess EXCEPT ![s] = cleanup(s, c, k)]
    /\ release(s)
    /\ lastOp' = Torn("disconnect", s, c, k)
    /\ UNCHANGED <<blocked, CONFIG, uplink, listing>>

\* `except Exception as e`: the error line to the client (a failure to send
\* it is passed over), then the finally block.
terminal_teardown(s, c, k) ==
    /\ sess[s].state = "closing"
    /\ Free(sess[s].host)
    /\ sess' = [sess EXCEPT ![s] =
                   [cleanup(s, c, k) EXCEPT !.rx = ws_send(sess[s], Line("[Connection Error]"))]]
    /\ release(s)
    /\ lastOp' = [Torn("teardown", s, c, k) EXCEPT !.ret = FALSE, !.err = "[Connection Error]"]
    /\ UNCHANGED <<blocked, CONFIG, uplink, listing>>

\* The shell prints: bytes become readable on the primary side.
shell_output(s, chunk) ==
    /\ sess[s].proc = "running"
    /\ sess[s].pty # 0
    /\ Len(pty_out[sess[s].pty]) < MaxChunks
    /\ pty_out' = [pty_out EXCEPT ![sess[s].pty] = Append(@, chunk)]
    /\ lastOp' = [NoOp EXCEPT !.op = "shell_output", !.sid = s]
    /\ UNCHANGED <<blocked, CONFIG, uplink, listing, sess, fds, pty_size, pty_in>>

\* The shell exits by itself (the user types exit, the VM stops).
shell_exit(s) ==
    /\ sess[s].proc = "running"
    /\ sess' = [sess EXCEPT ![s].proc = "exited"]
    /\ lastOp' = [NoOp EXCEPT !.op = "shell_exit", !.sid = s]
    /\ UNCHANGED <<blocked, CONFIG, uplink, listing, fds, pty_size, pty_in, pty_out>>

\* What os.read gives once the shell has exited and its output is read:
\* b"" or, where the platform reports the closed secondary side as an
\* error, OSError (EIO).
ReadOutcomes == {"eof", "eio"}

\* One iteration of read_and_forward: select, os.read(master_fd, 4096) and
\* ws.send_bytes(data); `break` on b"" and on an exception of the send, a
\* short sleep on OSError of the read.
read_and_forward(s, r) ==
    LET x == sess[s]
        p == pty_of(s)
    IN
    /\ x.state \in {"active", "closing"}
    /\ x.read_task = "running"
    /\ Free(x.host)
    /\ p # 0
    /\ IF x.nread < Len(pty_out[p])
       THEN sess' = [sess EXCEPT ![s].nread = x.nread + 1,
                                 ![s].rx = IF x.peer = "connected"
                                           THEN deliver(x.rx, WireFrame("binary", pty_out[p][x.nread + 1], p))
                                           ELSE x.rx,
                                 ![s].read_task = IF x.peer = "connected"
                                                  THEN "running" ELSE "finished"]
       ELSE /\ x.proc = "exited"
            /\ sess' = [sess EXCEPT ![s].read_task = IF r = "eof" THEN "finished" ELSE "running"]
    /\ lastOp' = [NoOp EXCEPT !.op = "read", !.sid = s,
                              !.out = IF x.nread < Len(pty_out[p]) THEN "data" ELSE r]
    /\ UNCHANGED <<blocked, CONFIG, uplink, listing, fds, pty_size, pty_in, pty_out>>

\* Faulty variant: the relay takes every registered agent as reachable.
agent_offline_never(a) == FALSE

\* `if agent.status != "online"` (websocket.py:52)
agent_offline(a) == a.status # "online"

\* handle_remote_terminal: the master's relay resolves the agent and opens
\* the outbound websocket to the agent's /ws with the stored key as header;
\* then the two forwarding coroutines run under asyncio.gather.  When the
\* agent is unknown or not online, and when the connection fails, the client
\* gets a line and ws is closed.
handle_remote_terminal(s, outcome) ==
    LET x == sess[s]
        id == x.agent_id[1]
        refused(text) == [x EXCEPT !.state = "closed", !.rx = ws_send(x, Line(text))]
    IN
    /\ x.state = "connecting"
    /\ x.path = "remote"
    /\ Truthy(x.vm_name)
    /\ Schedulable
    /\ IF get_agent(id) = None
       THEN /\ sess' = [sess EXCEPT ![s] = refused("Error: Agent not found")]
            /\ lastOp' = [NoOp EXCEPT !.op = "remote_terminal", !.id = id, !.sid = s,
                                      !.ret = FALSE, !.err = "Agent not found"]
       ELSE IF agent_offline(get_agent(id)[1])
            THEN /\ sess' = [sess EXCEPT ![s] = refused("Error: Agent is offline")]
                 /\ lastOp' = [NoOp EXCEPT !.op = "remote_terminal", !.id = id, !.sid = s,
                                           !.ret = FALSE, !.err = "Agent is offline"]
            ELSE /\ sess' = [sess EXCEPT ![s] =
                                IF outcome = "ok"
                                THEN [x EXCEPT !.state = "active", !.remote_ws = "open",
                                               !.agent = "connected",
                                               !.to_remote = "running",
                                               !.from_remote = "running"]
                                ELSE refused("[Connection Error]")]
                 /\ lastOp' = [NoOp EXCEPT !.op = "remote_terminal", !.id = id, !.sid = s,
                                           !.ret = (outcome = "ok"), !.net = 1,
                                           !.out = outcome, !.key = get_headers(id),
                                           !.err = IF outcome = "ok" THEN ""
                                                   ELSE "Connection Error"]
    /\ UNCHANGED <<registry, now, sweeper, blocked, CONFIG, uplink, listing, fds, pty_size, pty_in, pty_out>>

\* forward_to_remote, one iteration: msg = await ws.receive_text() and
\* await remote_ws.send(msg).  A binary frame has no text and a closed
\* remote_ws raises: `except Exception` ends the coroutine.
forward_to_remote(s, frame) ==
    LET x == sess[s]
        passes == frame.kind = "text" /\ x.agent = "connected"
    IN
    /\ x.state = "active"
    /\ x.to_remote = "running"
    /\ x.peer = "connected"
    /\ Schedulable
    /\ Len(x.sent) < MaxFrames
    /\ sess' = [sess EXCEPT ![s].sent = Append(x.sent, frame),
                            ![s].tx = IF passes THEN deliver(x.tx, frame) ELSE x.tx,
                            ![s].to_remote = IF passes THEN "running" ELSE "ended"]
    /\ lastOp' = [NoOp EXCEPT !.op = "to_remote", !.sid = s, !.ret = passes]
    /\ UNCHANGED <<registry, now, sweeper, blocked, CONFIG, uplink, listing, fds, pty_size, pty_in, pty_out>>

\* forward_to_remote when the client is gone: ws.receive_text() raises
\* WebSocketDisconnect and the coroutine ends.
forward_to_remote_ends(s) ==
    /\ sess[s].state = "active"
    /\ sess[s].to_remote = "running"
    /\ sess[s].peer = "gone"
    /\ Schedulable
    /\ sess' = [sess EXCEPT ![s].to_remote = "ended"]
    /\ lastOp' = [NoOp EXCEPT !.op = "to_remote", !.sid = s, !.ret = FALSE]
    /\ UNCHANGED <<registry, now, sweeper, blocked, CONFIG, uplink, listing, fds, pty_size, pty_in, pty_out>>

\* forward_from_remote, one iteration of `async for msg in remote_ws`:
\* ws.send_bytes(msg) for bytes, ws.send_text(msg) otherwise.  Sending to a
\* client that is gone raises and ends the coroutine.
forward_from_remote(s, frame) ==
    LET x == sess[s] IN
    /\ x.state = "active"
    /\ x.from_remote = "running"
    /\ x.agent = "connected"
    /\ Schedulable
    /\ Len(x.agent_sent) < MaxFrames
    /\ sess' = [sess EXCEPT ![s].agent_sent = Append(x.agent_sent, frame),
                            ![s].rx = IF x.peer = "connected"
                                      THEN deliver(x.rx, WireFrame(IF frame.kind = "binary"
                                                                   THEN "binary" ELSE "text",
                                                                   frame.data, frame.src))
                                      ELSE x.rx,
                            ![s].from_remote = IF x.peer = "connected"
                                               THEN "running" ELSE "ended"]
    /\ lastOp' = [NoOp EXCEPT !.op = "from_remote", !.sid = s, !.ret = (x.peer = "connected")]
    /\ UNCHANGED <<registry, now, sweeper, blocked, CONFIG, uplink, listing, fds, pty_size, pty_in, pty_out>>

\* The agent closes its socket, or the connection to it is lost.
agent_close(s) ==
    /\ sess[s].state = "active"
    /\ sess[s].agent = "connected"
    /\ sess' = [sess EXCEPT ![s].agent = "gone"]
    /\ lastOp' = [NoOp EXCEPT !.op = "agent_close", !.sid = s]
    /\ UNCHANGED <<registry, now, sweeper, blocked, CONFIG, uplink, listing, fds, pty_size, pty_in, pty_out>>

\* forward_from_remote when remote_ws is closed: the `async for` is over.
forward_from_remote_ends(s) ==
    /\ sess[s].state = "active"
    /\ sess[s].from_remote = "running"
    /\ sess[s].agent = "gone"
    /\ Schedulable
    /\ sess' = [sess EXCEPT ![s].from_remote = "ended"]
    /\ lastOp' = [NoOp EXCEPT !.op = "from_remote", !.sid = s, !.ret = FALSE]
    /\ UNCHANGED <<registry, now, sweeper, blocked, CONFIG, uplink, listing, fds, pty_size, pty_in, pty_out>>

\* asyncio.gather(forward_to_remote(), forward_from_remote(),
\* return_exceptions=True) is over when both coroutines are.
gathered(x) == x.to_remote = "ended" /\ x.from_remote = "ended"

\* After gather: the finally block closes remote_ws and ws.
relay_finish(s) ==
    /\ sess[s].state = "active"
    /\ sess[s].path = "remote"
    /\ gathered(sess[s])
    /\ Schedulable
    /\ sess' = [sess EXCEPT ![s].state = "closed", ![s].remote_ws = "closed",
                            ![s].sent = << >>, ![s].agent_sent = << >>, ![s].tx = << >>]
    /\ lastOp' = [NoOp EXCEPT !.op = "relay_finish", !.sid = s]
    /\ UNCHANGED <<registry, now, sweeper, blocked, CONFIG, uplink, listing, fds, pty_size, pty_in, pty_out>>

----------------------------------------------------------------------------
(* The Command Runner's wait, and the agent's uplink to its master *)

\* A handler of the host calls subprocess.run and the tool has not exited
\* yet: the call is made from a coroutine without an await, so the host's
\* event loop is inside it.
tool_wait(host) ==
    /\ Free(host)
    /\ host = "master" => Schedulable
    /\ blocked' = blocked \cup {host}
    /\ lastOp' = [NoOp EXCEPT !.op = "tool_wait", !.exe = host]
    /\ UNCHANGED <<registry, now, sweeper>>

\* The tool exits, or the agent's ceiling is over: subprocess.run returns.
tool_done(host) ==
    /\ host \in blocked
    /\ blocked' = blocked \ {host}
    /\ lastOp' = [NoOp EXCEPT !.op = "tool_done", !.exe = host]
    /\ UNCHANGED <<registry, now, sweeper>>

\* A request of the agent reaches a master that is up and whose event loop
\* runs; otherwise the POST raises (connection refused, timeout=10).
delivered == uplink.master = "up" /\ Schedulable

\* register_with_master: AgentRegisterRequest(agent_id, hostname, api_url,
\* api_key=CONFIG["api_key"]); tags takes its default.
registration == Request("a1", "h1", <<"u">>, CONFIG.api_key, Some({}))

\* startup_event: `await register_with_master()`, whose `except Exception`
\* only logs, then heartbeat_task = asyncio.create_task(heartbeat_loop()).
startup_event ==
    /\ uplink.agent = "stopped"
    /\ Free("agent")
    /\ IF delivered
       THEN register_agent(registration)
       ELSE /\ lastOp' = Op("register", "a1", FALSE)
            /\ UNCHANGED <<registry, now, sweeper>>
    /\ uplink' = [uplink EXCEPT !.agent = "running"]

\* heartbeat_loop, one iteration: asyncio.sleep(interval), send_heartbeat
\* with status "online" and the agent's time; `except Exception` only logs.
\* The master answers 200 whether or not it knows the agent.
send_heartbeat ==
    /\ uplink.agent = "running"
    /\ Free("agent")
    /\ IF delivered
       THEN update_heartbeat(Heartbeat("a1", now, "online", 1))
       ELSE /\ lastOp' = Op("heartbeat", "a1", FALSE)
            /\ UNCHANGED <<registry, now, sweeper>>
    /\ uplink' = [uplink EXCEPT !.beat = 1 - @]

\* shutdown_event: heartbeat_task.cancel(); nothing is sent to the master.
shutdown_event ==
    /\ uplink.agent = "running"
    /\ uplink' = [uplink EXCEPT !.agent = "stopped", !.beat = 0]
    /\ lastOp' = Op("shutdown", "a1", TRUE)
    /\ UNCHANGED <<registry, now, sweeper>>

\* The master process ends, or the network to it breaks.  AgentRegistry is
\* in memory: a process that ends loses its agents and keys.
master_down(restart) ==
    /\ uplink.master = "up"
    /\ monitor = "stopped"
    /\ uplink' = [uplink EXCEPT !.master = "down"]
    /\ IF restart
       THEN agents' = << >> /\ api_keys' = << >>
       ELSE UNCHANGED registry
    /\ lastOp' = Op(IF restart THEN "master_exit" ELSE "unreachable", "-", TRUE)
    /\ UNCHANGED <<now, sweeper>>

\* The master is started again, or the network is back.
master_up ==
    /\ uplink.master = "down"
    /\ uplink' = [uplink EXCEPT !.master = "up"]
    /\ lastOp' = Op("master_up", "-", TRUE)
    /\ UNCHANGED <<registry, now, sweeper>>

----------------------------------------------------------------------------
(* Observers: what the liveness claims measure, not program state *)

Max(a, b) == IF a >= b THEN a ELSE b

\* A heartbeat as the agent's send_heartbeat produces it and the network
\* delivers it: status "online", stamped at most the POST timeout before now.
AgentSent(hb) ==
    /\ hb.status = "online"
    /\ now - post_timeout <= hb.timestamp
    /\ hb.timestamp <= now

\* A registration of id is applied.
ObserveRegister(id) ==
    /\ applied' = dict_set(applied, id, now)
    /\ tolerant' = dict_set(tolerant, id, TRUE)
    /\ UNCHANGED since

\* A heartbeat is applied (registered agent) or ignored.
ObserveHeartbeat(hb) ==
    /\ IF hb.agent_id \in DOMAIN agents
       THEN /\ applied' = dict_set(applied, hb.agent_id, now)
            /\ tolerant' = dict_set(tolerant, hb.agent_id,
                  /\ tolerant[hb.agent_id]
                  /\ AgentSent(hb)
                  /\ now - applied[hb.agent_id] <= 2 * heartbeat_interval)
       ELSE UNCHANGED <<applied, tolerant>>
    /\ UNCHANGED since

ObserveUnregister(id) ==
    /\ applied' = dict_del(applied, id)
    /\ tolerant' = dict_del(tolerant, id)
    /\ UNCHANGED since

ObserveStart == since' = now /\ UNCHANGED <<applied, tolerant>>

ObserveStop == since' = 0 /\ UNCHANGED <<applied, tolerant>>

----------------------------------------------------------------------------
(* Inputs *)

Url1 == <<"u", "/">>

Url2 == <<"u", "/", "/">>

Url3 == <<"w">>

Requests(id) ==
    { Request(id, "h1", Url1, None, None),
      Request(id, "h1", Url2, Some(""), Some({})),
      Request(id, "h2", Url3, Some("k1"), Some({<<"env", "prod">>})) }

\* Heartbeat payloads as <<timestamp - now, status, vm_count>>: the agent's own
\* (status "online", stamped now or one interval ago), one stamped by a clock
\* ahead of the master's, and two carrying another status string.
Payloads ==
    { <<0, "online", 1>>, <<0 - heartbeat_interval, "online", 0>>,
      <<heartbeat_interval, "online", 1>>, <<0, "offline", 0>>,
      <<0, "degraded", 1>> }

Init ==
    /\ agents = << >>
    /\ api_keys = << >>
    /\ now = 0
    /\ monitor = "stopped"
    /\ sweepDue = 0
    /\ sweepNow = 0
    /\ sweepTodo = {}
    /\ sweepCur = {}
    /\ sweepSeen = 0
    /\ lastOp = NoOp
    /\ applied = << >>
    /\ tolerant = << >>
    /\ since = 0
    /\ blocked = {}
    /\ CONFIG = [api_key |-> None]
    /\ uplink = NoUplink
    /\ listing = NoListing
    /\ sess = [s \in Sessions |-> NoSession]
    /\ fds = [h \in Hosts |-> << >>]
    /\ pty_size = [p \in PtyIds |-> <<0, 0>>]
    /\ pty_in = [p \in PtyIds |-> << >>]
    /\ pty_out = [p \in PtyIds |-> << >>]

Next ==
    \/ \E id \in AgentIds : \E req \in Requests(id) :
          register_agent(req) /\ UNCHANGED others
    \/ \E id \in AgentIds : unregister_agent(id) /\ UNCHANGED others
    \/ \E id \in AgentIds, p \in Payloads :
          update_heartbeat(Heartbeat(id, now + p[1], p[2], p[3])) /\ UNCHANGED others
    \/ start_heartbeat_monitor /\ UNCHANGED others
    \/ stop_heartbeat_monitor /\ UNCHANGED others
    \/ check_agent_status_enter /\ UNCHANGED others
    \/ \E id \in AgentIds : check_agent_status_read(id) /\ UNCHANGED others
    \/ \E id \in AgentIds : check_agent_status_write(id) /\ UNCHANGED others
    \/ check_agent_status_return /\ UNCHANGED others
    \/ Tick(heartbeat_interval, MaxTime) /\ UNCHANGED others

Spec == Init /\ [][Next]_vars

\* Dispatch: executor calls for a known and an unknown agent id; the known
\* agent registers with and without a key, its own heartbeats keep it online
\* and the sweep marks it offline.
DispatchIds == {"a1"}

DispatchRequests(id) ==
    { Request(id, "h1", Url1, None, None),
      Request(id, "h2", Url3, Some("k1"), None) }

DispatchPayloads == { <<0, "online", 1>> }

\* Calls: every executor and communicator operation and the relay's outbound
\* connection, for an agent that registers with and without a key, is
\* reported online or offline by heartbeats, and is removed.
CommPayloads == { <<0, "online", 1>>, <<0, "offline", 0>> }

\* The ids an executor is asked for: a registered one, an unknown one and the
\* empty string, which is not None.
ExecIds == AgentIds \cup {""}

\* The outcomes of the purge run, which only delete_vm makes.
PurgeOutcomes(op) == IF op = "delete_vm" THEN ToolOutcomes ELSE {"exit0"}

\* What websockets.connect can come to.
ConnectOutcomes == {"ok", "connect_error"}

NextDispatch ==
    \/ \E id \in DispatchIds : \E req \in DispatchRequests(id) :
          register_agent(req) /\ UNCHANGED others
    \/ \E id \in DispatchIds : unregister_agent(id) /\ UNCHANGED others
    \/ \E id \in DispatchIds, p \in DispatchPayloads :
          update_heartbeat(Heartbeat(id, now + p[1], p[2], p[3])) /\ UNCHANGED others
    \/ \E op \in ExecutorOps, id \in AgentIds, outcome \in NetOutcomes :
          remote_executor(op, id, outcome) /\ UNCHANGED others
    \/ start_heartbeat_monitor /\ UNCHANGED others
    \/ check_agent_status_enter /\ UNCHANGED others
    \/ \E id \in DispatchIds : check_agent_status_read(id) /\ UNCHANGED others
    \/ \E id \in DispatchIds : check_agent_status_write(id) /\ UNCHANGED others
    \/ check_agent_status_return /\ UNCHANGED others
    \/ Tick(heartbeat_interval, MaxTime) /\ UNCHANGED others

SpecDispatch == Init /\ [][NextDispatch]_vars

\* Liveness timing: one agent on a 10 s grid, heartbeats as the agent sends
\* them (delivered at once or after the POST timeout), one stamped by a clock
\* ahead of the master's with another status, and one stamped by a clock
\* that is behind by more than the threshold.
LiveIds == {"a1"}

LivePayloads ==
    { <<0, "online", 1>>, <<0 - post_timeout, "online", 1>>,
      <<post_timeout, "degraded", 1>>,
      <<0 - offline_threshold - post_timeout, "online", 1>> }

NextLive ==
    \/ \E id \in LiveIds :
          /\ register_agent(Request(id, "h1", Url1, None, None))
          /\ ObserveRegister(id) /\ UNCHANGED idle
    \/ \E id \in LiveIds : unregister_agent(id) /\ ObserveUnregister(id) /\ UNCHANGED idle
    \/ \E id \in LiveIds, p \in LivePayloads :
          LET hb == Heartbeat(id, now + p[1], p[2], p[3]) IN
          update_heartbeat(hb) /\ ObserveHeartbeat(hb) /\ UNCHANGED idle
    \/ start_heartbeat_monitor /\ ObserveStart /\ UNCHANGED idle
    \/ stop_heartbeat_monitor /\ ObserveStop /\ UNCHANGED idle
    \/ check_agent_status_enter /\ UNCHANGED others
    \/ \E id \in LiveIds : check_agent_status_read(id) /\ UNCHANGED others
    \/ \E id \in LiveIds : check_agent_status_write(id) /\ UNCHANGED others
    \/ check_agent_status_return /\ UNCHANGED others
    \/ Tick(post_timeout, LiveMaxTime) /\ UNCHANGED others

SpecLive == Init /\ [][NextLive]_vars

NextComm ==
    \/ \E id \in DispatchIds : \E req \in DispatchRequests(id) :
          register_agent(req) /\ UNCHANGED others
    \/ \E id \in DispatchIds : unregister_agent(id) /\ UNCHANGED others
    \/ \E id \in DispatchIds, p \in CommPayloads :
          update_heartbeat(Heartbeat(id, now + p[1], p[2], p[3])) /\ UNCHANGED others
    \/ \E op \in ExecutorOps, id \in ExecIds, outcome \in NetOutcomes :
          executor(Some(id), op, outcome, "exit0", "exit0") /\ UNCHANGED quiet
    \/ \E op \in ExecutorOps, o1 \in ToolOutcomes :
          \E o2 \in PurgeOutcomes(op) :
          executor(None, op, "ok", o1, o2) /\ UNCHANGED quiet
    \/ \E op \in DirectOps, id \in ExecIds, outcome \in NetOutcomes :
          communicator(op, id, outcome) /\ UNCHANGED others

SpecComm == Init /\ [][NextComm]_vars

\* Everything the master sends to an agent: the communicator's requests and
\* the relay's outbound connection.
NextOutbound ==
    \/ \E id \in DispatchIds : \E req \in DispatchRequests(id) :
          register_agent(req) /\ UNCHANGED others
    \/ \E id \in DispatchIds, p \in CommPayloads :
          update_heartbeat(Heartbeat(id, now + p[1], p[2], p[3])) /\ UNCHANGED others
    \/ \E op \in DirectOps, id \in ExecIds, outcome \in NetOutcomes :
          communicator(op, id, outcome) /\ UNCHANGED others
    \/ \E id \in AgentIds :
          terminal_accept(1, "master", Some("vm1"), Some(id), None) /\ UNCHANGED master
    \/ \E outcome \in ConnectOutcomes :
          handle_remote_terminal(1, outcome) /\ UNCHANGED observer
    \/ client_close(1) /\ UNCHANGED master
    \/ agent_close(1) /\ UNCHANGED observer
    \/ forward_to_remote_ends(1) /\ UNCHANGED observer
    \/ forward_from_remote_ends(1) /\ UNCHANGED observer
    \/ relay_finish(1) /\ UNCHANGED observer

SpecOutbound == Init /\ [][NextOutbound]_vars

\* The hosts: the master's local executor, and the agent with its
\* configured key, its HTTP endpoints and its /ws endpoint.
AgentKeys == {None, Some("k1")}

Headers == {None, Some("k1"), Some("k2")}

SpawnOutcomes == {"ok", "missing"}

NextHost ==
    \/ \E key \in AgentKeys : agent_main(key) /\ UNCHANGED master
    \/ \E ep \in AgentEndpoints, h \in Headers, o1 \in ToolOutcomes :
          \E o2 \in PurgeOutcomes(ep) :
          agent_endpoint(ep, h, o1, o2) /\ UNCHANGED master
    \/ \E op \in ExecutorOps, o1 \in ToolOutcomes :
          \E o2 \in PurgeOutcomes(op) :
          local_executor(op, o1, o2) /\ UNCHANGED <<observer, hostside>>

SpecHost == Init /\ [][NextHost]_vars

\* The agent's doors: its HTTP endpoints and its terminal websocket, with and
\* without a configured key.
NextAgentAuth ==
    \/ \E key \in AgentKeys : agent_main(key) /\ UNCHANGED master
    \/ \E ep \in AgentEndpoints, h \in Headers, o1 \in {"exit0", "nonzero"} :
          agent_endpoint(ep, h, o1, "exit0") /\ UNCHANGED master
    \/ \E h \in Headers :
          terminal_accept(1, "agent", Some("vm1"), None, h) /\ UNCHANGED master
    \/ terminal_connect(1, "ok") /\ UNCHANGED master
    \/ client_close(1) /\ UNCHANGED master
    \/ terminal_disconnect(1, "ok", "exits") /\ UNCHANGED master

SpecAgentAuth == Init /\ [][NextAgentAuth]_vars

\* Remote operations end to end: the agent a1 with and without a configured
\* key, registered with and without a key, and every outcome of the tool on
\* the agent.
NextRemote ==
    \/ \E id \in DispatchIds : \E req \in DispatchRequests(id) :
          register_agent(req) /\ UNCHANGED others
    \/ \E key \in AgentKeys : agent_main(key) /\ UNCHANGED master
    \/ \E op \in ExecutorOps, id \in AgentIds, o1 \in ToolOutcomes :
          \E o2 \in PurgeOutcomes(op) :
          remote_operation(op, id, o1, o2) /\ UNCHANGED others
    \/ \E op \in ExecutorOps, id \in DispatchIds, outcome \in NetOutcomes \ {"ok"} :
          remote_executor(op, id, outcome) /\ UNCHANGED others

SpecRemote == Init /\ [][NextRemote]_vars

\* The listing route beside the registry's handlers: two agents that
\* register, are removed and report themselves online or offline while a
\* listing is in progress.
ListingRequests(id) == { Request(id, "h1", Url1, None, None) }

ListStep ==
    \E id \in AgentIds, outcome \in NetOutcomes :
       list_vms_agent(id, outcome) /\ UNCHANGED offroute

NextListing ==
    \/ \E id \in AgentIds : \E req \in ListingRequests(id) :
          register_agent(req) /\ UNCHANGED others
    \/ \E id \in AgentIds : unregister_agent(id) /\ UNCHANGED others
    \/ \E id \in AgentIds, p \in CommPayloads :
          update_heartbeat(Heartbeat(id, now + p[1], p[2], p[3])) /\ UNCHANGED others
    \/ \E authed \in BOOLEAN, o1 \in ToolOutcomes :
          list_vms_call(authed, o1) /\ UNCHANGED offroute
    \/ ListStep

SpecListing == Init /\ [][NextListing]_vars /\ WF_vars(ListStep)

\* Routing: the agent_id values a request can carry (absent, empty,
\* non-empty), given to the executor factory by a VM route and to the
\* terminal endpoint as a query parameter.
Targets == {None, Some(""), Some("a1")}

NextRouting ==
    \/ \E id \in DispatchIds : \E req \in DispatchRequests(id) :
          register_agent(req) /\ UNCHANGED others
    \/ \E agent_id \in Targets, op \in ExecutorOps, outcome \in NetOutcomes :
          executor(agent_id, op, outcome, "exit0", "exit0") /\ UNCHANGED quiet
    \/ \E agent_id \in Targets :
          terminal_accept(1, "master", Some("vm1"), agent_id, None) /\ UNCHANGED master
    \/ \E outcome \in ConnectOutcomes :
          handle_remote_terminal(1, outcome) /\ UNCHANGED observer
    \/ terminal_connect(1, "ok") /\ UNCHANGED master
    \/ client_close(1) /\ UNCHANGED master
    \/ terminal_disconnect(1, "ok", "exits") /\ UNCHANGED master
    \/ agent_close(1) /\ UNCHANGED observer
    \/ forward_to_remote_ends(1) /\ UNCHANGED observer
    \/ forward_from_remote_ends(1) /\ UNCHANGED observer
    \/ relay_finish(1) /\ UNCHANGED observer

SpecRouting == Init /\ [][NextRouting]_vars

\* Terminal sessions on either host, frame by frame.
Frames ==
    { Frame("hello\n", Json("invalid", None, None, None)),
      Frame("[1]", Json("array", None, None, None)),
      Frame("{type:ping}", Json("object", Some("ping"), None, None)),
      Frame("{type:resize,cols:80,rows:24}",
            Json("object", Some("resize"), Some(JNum(80)), Some(JNum(24)))),
      Frame("{type:resize,cols:'132',rows:'43'}",
            Json("object", Some("resize"), Some(JStr(<<"1", "3", "2">>)),
                 Some(JStr(<<"4", "3">>)))),
      Frame("{type:resize,cols:65536,rows:24}",
            Json("object", Some("resize"), Some(JNum(USHRT_MAX + 1)), Some(JNum(24)))),
      Frame("{type:resize,cols:'wide',rows:24}",
            Json("object", Some("resize"), Some(JStr(<<"w", "i", "d", "e">>)),
                 Some(JNum(24)))),
      Frame("{type:resize,cols:80,rows:null}",
            Json("object", Some("resize"), Some(JNum(80)), Some(JNull))),
      Frame("{type:resize,cols:80}",
            Json("object", Some("resize"), Some(JNum(80)), None)) }

NextTerminal ==
    \/ \E host \in Hosts :
          terminal_accept(1, host, Some("vm1"), None, None) /\ UNCHANGED master
    \/ terminal_connect(1, "ok") /\ UNCHANGED master
    \/ \E f \in Frames, w \in WriteOutcomes : \E t \in TearsOf(w) :
          receive_frame(1, f, w, t[1], t[2]) /\ UNCHANGED master
    \/ receive_bytes(1) /\ UNCHANGED master
    \/ shell_exit(1) /\ UNCHANGED master
    \/ client_close(1) /\ UNCHANGED master
    \/ \E t \in Tears : terminal_disconnect(1, t[1], t[2]) /\ UNCHANGED master
    \/ \E t \in Tears : terminal_teardown(1, t[1], t[2]) /\ UNCHANGED master

SpecTerminal == Init /\ [][NextTerminal]_vars

\* One local session on the master from the request to the end of its
\* handler: a keystroke frame and a resize frame, the shell's output and
\* exit, and every way the setup and the cleanup can go.
SessionFrames ==
    { Frame("hello\n", Json("invalid", None, None, None)),
      Frame("{type:resize,cols:80,rows:24}",
            Json("object", Some("resize"), Some(JNum(80)), Some(JNum(24)))) }

Chunks == {"$ ", "ok\n"}

VmNames == {None, Some("vm1")}

\* What the handler does by itself once it can: the event loop runs every
\* task that is ready.
HandlerStep(s) ==
    \/ terminal_reject(s)
    \/ \E spawn \in SpawnOutcomes : terminal_connect(s, spawn)
    \/ \E r \in ReadOutcomes : read_and_forward(s, r)
    \/ \E t \in Tears : terminal_disconnect(s, t[1], t[2])
    \/ \E t \in Tears : terminal_teardown(s, t[1], t[2])

NextSession ==
    \/ \E vm \in VmNames :
          terminal_accept(1, "master", vm, None, None) /\ UNCHANGED master
    \/ terminal_reject(1) /\ UNCHANGED master
    \/ \E spawn \in SpawnOutcomes : terminal_connect(1, spawn) /\ UNCHANGED master
    \/ \E f \in SessionFrames, w \in WriteOutcomes : \E t \in TearsOf(w) :
          receive_frame(1, f, w, t[1], t[2]) /\ UNCHANGED master
    \/ receive_bytes(1) /\ UNCHANGED master
    \/ \E chunk \in Chunks : shell_output(1, chunk) /\ UNCHANGED master
    \/ shell_exit(1) /\ UNCHANGED master
    \/ \E r \in ReadOutcomes : read_and_forward(1, r) /\ UNCHANGED master
    \/ client_close(1) /\ UNCHANGED master
    \/ \E t \in Tears : terminal_disconnect(1, t[1], t[2]) /\ UNCHANGED master
    \/ \E t \in Tears : terminal_teardown(1, t[1], t[2]) /\ UNCHANGED master

SpecSession ==
    Init /\ [][NextSession]_vars /\ WF_vars(HandlerStep(1) /\ UNCHANGED master)

\* Two local sessions on the master at the same time.
NextSessions ==
    \/ \E s \in Sessions :
          terminal_accept(s, "master", Some("vm1"), None, None) /\ UNCHANGED master
    \/ \E s \in Sessions : terminal_connect(s, "ok") /\ UNCHANGED master
    \/ \E s \in Sessions :
          receive_frame(s, Frame("hello\n", Json("invalid", None, None, None)),
                        "all", "ok", "exits") /\ UNCHANGED master
    \/ \E s \in Sessions : shell_output(s, "$ ") /\ UNCHANGED master
    \/ \E s \in Sessions : read_and_forward(s, "eof") /\ UNCHANGED master
    \/ \E s \in Sessions : client_close(s) /\ UNCHANGED master
    \/ \E s \in Sessions : terminal_disconnect(s, "ok", "exits") /\ UNCHANGED master

SpecSessions == Init /\ [][NextSessions]_vars

\* The relay of the master, one session at a time on either path, over a
\* registry in which a1 is unknown, online or offline.
RelayFrames ==
    { WireFrame("text", "ls\n", 0),
      WireFrame("text", "{type:resize,cols:80,rows:24}", 0),
      WireFrame("binary", "^C", 0) }

AgentFrames ==
    { WireFrame("binary", "$ ", 0), WireFrame("text", "[Connection Error]", 0) }

\* The frames of a local session here: two different keystroke frames and a
\* resize.
LocalFrames == SessionFrames \cup {Frame("{type:ping}", Json("object", Some("ping"), None, None))}

RelayTargets == {None, Some("a1"), Some("a2")}

\* What the relay does by itself once it can.
RelayStep(s) ==
    \/ terminal_reject(s) /\ UNCHANGED master
    \/ terminal_connect(s, "ok") /\ UNCHANGED master
    \/ (\E outcome \in ConnectOutcomes : handle_remote_terminal(s, outcome)) /\ UNCHANGED observer
    \/ forward_to_remote_ends(s) /\ UNCHANGED observer
    \/ forward_from_remote_ends(s) /\ UNCHANGED observer
    \/ relay_finish(s) /\ UNCHANGED observer
    \/ (\E r \in ReadOutcomes : read_and_forward(s, r)) /\ UNCHANGED master
    \/ terminal_disconnect(s, "ok", "exits") /\ UNCHANGED master

NextRelay ==
    \/ register_agent(Request("a1", "h1", Url1, Some("k1"), None)) /\ UNCHANGED others
    \/ \E p \in CommPayloads :
          update_heartbeat(Heartbeat("a1", now + p[1], p[2], p[3])) /\ UNCHANGED others
    \/ \E vm \in VmNames, target \in RelayTargets :
          terminal_accept(1, "master", vm, target, None) /\ UNCHANGED master
    \/ terminal_reject(1) /\ UNCHANGED master
    \/ terminal_connect(1, "ok") /\ UNCHANGED master
    \/ \E outcome \in ConnectOutcomes :
          handle_remote_terminal(1, outcome) /\ UNCHANGED observer
    \/ \E frame \in RelayFrames : forward_to_remote(1, frame) /\ UNCHANGED observer
    \/ \E frame \in AgentFrames : forward_from_remote(1, frame) /\ UNCHANGED observer
    \/ client_close(1) /\ UNCHANGED master
    \/ agent_close(1) /\ UNCHANGED observer
    \/ forward_to_remote_ends(1) /\ UNCHANGED observer
    \/ forward_from_remote_ends(1) /\ UNCHANGED observer
    \/ relay_finish(1) /\ UNCHANGED observer
    \/ \E f \in LocalFrames : receive_frame(1, f, "all", "ok", "exits") /\ UNCHANGED master
    \/ \E chunk \in Chunks : shell_output(1, chunk) /\ UNCHANGED master
    \/ \E r \in ReadOutcomes : read_and_forward(1, r) /\ UNCHANGED master
    \/ terminal_disconnect(1, "ok", "exits") /\ UNCHANGED master

SpecRelay == Init /\ [][NextRelay]_vars /\ WF_vars(RelayStep(1))

\* The tasks of the two processes around a run of the tool: the master's
\* sweep, its handlers for the agent's registration and heartbeats and a
\* remote relay, the agent's heartbeat loop and a terminal session on it.
\* The relay pumps one frame, a session on the agent opens and ends.
WaitFrame == WireFrame("text", "ls\n", 0)

\* What the master's event loop has to run besides the waiting handler.
MasterTasks ==
    \/ register_agent(registration) /\ UNCHANGED others
    \/ update_heartbeat(Heartbeat("a1", now, "online", 1)) /\ UNCHANGED others
    \/ check_agent_status_enter /\ UNCHANGED others
    \/ \E id \in LiveIds : check_agent_status_read(id) /\ UNCHANGED others
    \/ \E id \in LiveIds : check_agent_status_write(id) /\ UNCHANGED others
    \/ check_agent_status_return /\ UNCHANGED others
    \/ handle_remote_terminal(1, "ok") /\ UNCHANGED observer
    \/ forward_to_remote(1, WaitFrame) /\ UNCHANGED observer

\* What the agent's event loop has to run besides the waiting handler.
AgentTasks ==
    \/ send_heartbeat /\ UNCHANGED nolink
    \/ terminal_connect(2, "ok") /\ UNCHANGED master
    \/ terminal_disconnect(2, "ok", "exits") /\ UNCHANGED master

NextWait ==
    \/ \E host \in Hosts :
          /\ host = "agent" => uplink.agent = "running"
          /\ tool_wait(host) /\ UNCHANGED <<observer, hostside>>
    \/ \E host \in Hosts : tool_done(host) /\ UNCHANGED <<observer, hostside>>
    \/ startup_event /\ UNCHANGED nolink
    \/ send_heartbeat /\ UNCHANGED nolink
    \/ start_heartbeat_monitor /\ UNCHANGED others
    \/ check_agent_status_enter /\ UNCHANGED others
    \/ \E id \in LiveIds : check_agent_status_read(id) /\ UNCHANGED others
    \/ \E id \in LiveIds : check_agent_status_write(id) /\ UNCHANGED others
    \/ check_agent_status_return /\ UNCHANGED others
    \/ Tick(heartbeat_interval, MaxTime) /\ UNCHANGED others
    \/ terminal_accept(1, "master", Some("vm1"), Some("a1"), None) /\ UNCHANGED master
    \/ handle_remote_terminal(1, "ok") /\ UNCHANGED observer
    \/ forward_to_remote(1, WaitFrame) /\ UNCHANGED observer
    \/ terminal_accept(2, "agent", Some("vm1"), None, None) /\ UNCHANGED master
    \/ terminal_connect(2, "ok") /\ UNCHANGED master
    \/ client_close(2) /\ UNCHANGED master
    \/ terminal_disconnect(2, "ok", "exits") /\ UNCHANGED master

SpecWait == Init /\ [][NextWait]_vars

\* The agent's uplink: the agent starts and stops, the master is reachable
\* or not and restarts.  The agent's own steps are taken whenever they can
\* be.
AgentStep ==
    \/ startup_event /\ UNCHANGED nolink
    \/ send_heartbeat /\ UNCHANGED nolink

NextUplink ==
    \/ \E key \in AgentKeys :
          /\ uplink.agent = "stopped"
          /\ agent_main(key) /\ UNCHANGED master
    \/ startup_event /\ UNCHANGED nolink
    \/ send_heartbeat /\ UNCHANGED nolink
    \/ shutdown_event /\ UNCHANGED nolink
    \/ \E restart \in BOOLEAN : master_down(restart) /\ UNCHANGED nolink
    \/ master_up /\ UNCHANGED nolink
    \/ Tick(heartbeat_interval, MaxTime) /\ UNCHANGED others

SpecUplink == Init /\ [][NextUplink]_vars /\ WF_vars(AgentStep)

----------------------------------------------------------------------------
(* Claims about the registry *)

Registered == DOMAIN agents

\* C2: in the state right after a heartbeat for a registered agent is applied,
\* that agent's status is online, whatever the heartbeat carried.
C2_OnlineAfterHeartbeat ==
    (lastOp.op = "heartbeat" /\ lastOp.ret) =>
        (lastOp.id \in Registered /\ agents[lastOp.id].status = "online")

\* C3: in the state right after every sweep, every registered agent is online
\* exactly when its last_seen lies within the offline threshold.
C3_SweepStatusIffRecent ==
    lastOp.op = "sweep" =>
        \A id \in Registered :
            agents[id].status = "online"
                <=> now - agents[id].last_seen <= offline_threshold

\* C4: in every reachable state every agent's status is online or offline.
C4_StatusOnlineOrOffline ==
    \A id \in Registered : agents[id].status \in {"online", "offline"}

\* C5: registry mutations are linearized: whenever the sweep has read an
\* agent's last_seen and not yet written its status, that agent is still the
\* registered record it read, its last_seen is still the value read and the
\* clock is still the sweep's `now`: no heartbeat, registration or removal
\* was applied in between, so each sweep visit acts as one atomic step.
C5_SweepVisitAtomic ==
    \A id \in sweepCur :
        /\ monitor = "scanning"
        /\ id \in Registered
        /\ agents[id].last_seen = sweepSeen
        /\ sweepNow = now

\* C5 witness: the sweep is between reading and writing an agent it is about
\* to mark offline, while another agent is registered.
C5_Witness ==
    \E id \in sweepCur :
        /\ agents[id].status = "online"
        /\ sweepNow - sweepSeen > offline_threshold
        /\ Registered # {id}

\* C6: re-registering an existing id is an upsert: one record for the id, with
\* the id, the request's hostname, url and tags, status online, and last_seen
\* not earlier than before the call.
C6_ReRegisterUpsert ==
    [][\A id \in AgentIds : \A req \in Requests(id) :
          (register_agent(req) /\ id \in Registered) =>
              /\ id \in DOMAIN agents'
              /\ agents'[id].agent_id = id
              /\ agents'[id].hostname = req.hostname
              /\ agents'[id].api_url = rstrip(req.api_url)
              /\ agents'[id].tags = tags_or_empty(req.tags)
              /\ agents'[id].status = "online"
              /\ agents'[id].last_seen >= agents[id].last_seen]_vars

\* C7: a heartbeat for an unregistered id changes nothing in the registry
\* (agents and keys); a heartbeat for a registered agent sets that agent's
\* last_seen, status and vm_count to the heartbeat's values, keeps its other
\* fields, and changes no other agent and no key.
C7_HeartbeatFrame ==
    [][\A id \in AgentIds : \A p \in Payloads :
          update_heartbeat(Heartbeat(id, now + p[1], p[2], p[3])) =>
              /\ DOMAIN agents' = DOMAIN agents
              /\ api_keys' = api_keys
              /\ \A x \in Registered \ {id} : agents'[x] = agents[x]
              /\ id \in Registered =>
                    /\ agents'[id].last_seen = now + p[1]
                    /\ agents'[id].status = p[2]
                    /\ agents'[id].vm_count = p[3]
                    /\ agents'[id].agent_id = agents[id].agent_id
                    /\ agents'[id].hostname = agents[id].hostname
                    /\ agents'[id].api_url = agents[id].api_url
                    /\ agents'[id].tags = agents[id].tags]_vars

\* C7 witness: a heartbeat for an unknown id was just ignored while another
\* agent and its key are stored.
C7_Witness ==
    /\ lastOp.op = "heartbeat"
    /\ ~lastOp.ret
    /\ lastOp.id \notin Registered
    /\ Registered # {}
    /\ DOMAIN api_keys # {}

\* C8: unregister(id) returns true exactly when id was registered; afterwards
\* get(id) finds nothing and the agent is in neither list; an unknown id leaves
\* the registry unchanged; and a record for an id that is not registered
\* appears only through a registration of that id.
C8_Unregister ==
    [][/\ \A id \in AgentIds :
             unregister_agent(id) =>
                /\ lastOp'.ret = (id \in Registered)
                /\ get_agent(id)' = None
                /\ \A a \in get_all_agents' : a.agent_id # id
                /\ \A a \in get_online_agents' : a.agent_id # id
                /\ id \notin Registered => UNCHANGED registry
       /\ \A id \in AgentIds :
             (id \notin Registered /\ id \in DOMAIN agents') =>
                (lastOp'.op = "register" /\ lastOp'.id = id)]_vars

\* C8 witness: an unregister just removed a registered agent, another stays.
C8_Witness ==
    /\ lastOp.op = "unregister"
    /\ lastOp.ret
    /\ lastOp.id \notin Registered
    /\ Registered # {}

----------------------------------------------------------------------------
(* Claims about liveness timing *)

\* The time from which an agent's silence counts: its last update, the end
\* of its offline threshold, and the start of the monitor.
SilentFrom(id) ==
    Max(Max(applied[id], agents[id].last_seen + offline_threshold), since)

\* C1: with the monitor running, an agent that got no heartbeat and no
\* registration for longer than the offline threshold after its last_seen is
\* offline at the latest one sweep period after the threshold elapsed.
C1_OfflineWithinSweepPeriod ==
    \A id \in Registered :
        (monitor # "stopped" /\ now > SilentFrom(id) + heartbeat_interval) =>
            agents[id].status = "offline"

\* C1 witness: more than a threshold and a sweep period after its last
\* update, under a running monitor, the agent has been swept offline.
C1_Witness ==
    \E id \in Registered :
        /\ monitor # "stopped"
        /\ now > SilentFrom(id) + heartbeat_interval
        /\ agents[id].status = "offline"
        /\ agents[id].last_seen >= 0

\* C9: an agent whose updates were the agent's own heartbeats, never more
\* than 60 s apart (at most one heartbeat missed in a row), is not offline in
\* the state a sweep leaves.
C9_OneMissTolerated ==
    lastOp.op = "sweep" =>
        \A id \in Registered :
            (tolerant[id] /\ now - applied[id] <= 2 * heartbeat_interval) =>
                agents[id].status # "offline"

----------------------------------------------------------------------------
(* Claims about dispatch *)

\* C10: every executor operation invoked through the remote executor on an
\* agent that is registered but not online fails as offline and sends no
\* request to the agent.
C10_OfflineNoNetwork ==
    (/\ lastOp.op \in ExecutorOps
     /\ lastOp.id \in Registered
     /\ agents[lastOp.id].status # "online") =>
        (~lastOp.ret /\ lastOp.net = 0 /\ lastOp.err = "Agent is offline")

C12_Dispatch ==
    [][lastOp'.op \in ExecutorOps =>
          /\ \A o1 \in ToolOutcomes : \A o2 \in PurgeOutcomes(lastOp'.op) :
                executor(None, lastOp'.op, "ok", o1, o2) =>
                   /\ lastOp'.exe = "local"
                   /\ lastOp'.runs # << >>
                   /\ lastOp'.calls = << >>
                   /\ lastOp'.net = 0
          /\ \A id \in ExecIds, outcome \in NetOutcomes :
                executor(Some(id), lastOp'.op, outcome, "exit0", "exit0") =>
                   /\ lastOp'.exe = "remote"
                   /\ lastOp'.calls = <<id>>
                   /\ lastOp'.runs = << >>]_vars

\* C12 witness: an operation asked of the executor for the empty id went to
\* the Communicator under that id while an agent is registered.
C12_Witness ==
    /\ lastOp.exe = "remote"
    /\ lastOp.id = ""
    /\ lastOp.calls = <<"">>
    /\ Registered # {}

----------------------------------------------------------------------------
(* Claims about the Command Runner and the executors of a host *)

Succeeded(r) == r.how = "value" /\ r.success

\* The host whose executor served the last operation.
ServedBy == IF lastOp.exe = "local" THEN "master" ELSE "agent"

\* C13: delete_vm of the master's local executor and of the agent's executor
\* runs `delete` and then `purge`: it reports success only if both runs
\* succeeded; when the delete run does not succeed purge is not run, and when
\* it fails the message is the delete run's error text; when delete succeeds
\* purge is run, and if purge fails the result is a failure.
C13_DeleteTwoStep ==
    (lastOp.op = "delete_vm" /\ lastOp.exe \in {"local", "agent"} /\ lastOp.outs # << >>) =>
        LET d == run_multipass_command(ServedBy, "delete", lastOp.outs[1]) IN
        /\ lastOp.runs[1] = "delete"
        /\ lastOp.ret =>
              /\ lastOp.runs = <<"delete", "purge">>
              /\ Succeeded(d)
              /\ Succeeded(run_multipass_command(ServedBy, "purge", lastOp.outs[2]))
        /\ ~Succeeded(d) => lastOp.runs = <<"delete">>
        /\ (d.how = "value" /\ ~d.success) => lastOp.err = d.error
        /\ Succeeded(d) =>
              /\ lastOp.runs = <<"delete", "purge">>
              /\ ~Succeeded(run_multipass_command(ServedBy, "purge", lastOp.outs[2])) =>
                    ~lastOp.ret

\* C13 witness: the agent's delete_vm just failed in its delete run, ran
\* nothing else and reported that run's stderr.
C13_Witness ==
    /\ lastOp.op = "delete_vm"
    /\ lastOp.exe = "agent"
    /\ lastOp.code = 500
    /\ lastOp.runs = <<"delete">>
    /\ lastOp.outs = <<"nonzero">>
    /\ lastOp.err = stderr("delete")

\* C14: every Command Runner invocation, on the master as on the agent, is
\* back within the ceiling of 5 minutes: no process stays inside a run of the
\* tool, and an operation never waited longer than the ceiling per run.
C14_RunnerCeiling ==
    /\ blocked = {}
    /\ lastOp.took <= Len(lastOp.runs) * command_timeout

\* C15: neither the Command Runner nor the Communicator lets an exception
\* escape: after every operation that ran the tool or called the Communicator
\* no exception has reached the caller, and a failed run of the tool reports
\* an error text.
C15_NoExceptionEscapes ==
    (lastOp.runs # << >> \/ lastOp.calls # << >>) =>
        /\ lastOp.exc = ""
        /\ (lastOp.runs # << >> /\ ~lastOp.ret /\ blocked = {}) => lastOp.err # ""

\* The error kind the failure taxonomy gives an outcome of the request.
ErrorClass(outcome) ==
    CASE outcome = "timeout"       -> "timeout"
      [] outcome = "connect_error" -> "transport_error"
      [] outcome = "http_status"   -> "protocol_error"
      [] outcome = "bad_body"      -> "protocol_error"
      [] OTHER                     -> ""

\* A Communicator call that sent its request and failed.
FailedCall(r) == r.calls # << >> /\ r.net > 0 /\ ~r.ret

\* C16: two failed calls of the same Communicator operation whose requests
\* failed in different classes (timeout, transport, protocol) report
\* different error kinds.
C16_ErrorKinds ==
    [][(/\ FailedCall(lastOp)
        /\ FailedCall(lastOp')
        /\ lastOp.op = lastOp'.op
        /\ ErrorClass(lastOp.out) # ErrorClass(lastOp'.out)) =>
            lastOp.err # lastOp'.err]_vars

\* C17: no operation sends more than one request, whatever the request comes
\* to, and every remote executor operation makes exactly one Communicator
\* call.
C17_NoRetry ==
    /\ lastOp.net <= 1
    /\ lastOp.exe = "remote" => Len(lastOp.calls) = 1

\* C17 witness: a remote executor operation whose request timed out has
\* sent that one request.
C17_Witness ==
    /\ lastOp.exe = "remote"
    /\ lastOp.out = "timeout"
    /\ lastOp.net = 1
    /\ ~lastOp.ret

C19_AgentAuth ==
    (lastOp.exe = "agent" /\ lastOp.op \in AgentEndpoints \cup {"connect"}) =>
        /\ (CONFIG.api_key # None /\ lastOp.key # CONFIG.api_key) =>
              /\ ~lastOp.ret
              /\ lastOp.runs = << >>
              /\ \A s \in Sessions :
                    (sess[s].host = "agent" /\ sess[s].key = lastOp.key) =>
                        sess[s].state \notin {"active"}
        /\ CONFIG.api_key = None => lastOp.code # 403

----------------------------------------------------------------------------
(* Claims about terminal sessions *)

\* A frame that is a JSON object with type "resize" and cols and rows members.
IsResizeFrame(f) ==
    /\ f.json.kind = "object"
    /\ f.json.type = Some("resize")
    /\ f.json.cols # None
    /\ f.json.rows # None

\* The frame of Frames with the given text.
frame_of(text) == CHOOSE f \in Frames : f.text = text

\* C20: every frame that is a resize object with cols and rows, at any point
\* of a session, writes nothing to the PTY, and sets the window size to its
\* rows and cols when they are numbers.
C20_ResizeNotTyped ==
    [][\A s \in Sessions :
          (/\ lastOp'.op = "frame"
           /\ lastOp'.sid = s
           /\ sess[s].path = "local"
           /\ Len(sess'[s].sent) = Len(sess[s].sent) + 1
           /\ sess'[s].sent[Len(sess'[s].sent)].kind = "text"
           /\ IsResizeFrame(frame_of(sess'[s].sent[Len(sess'[s].sent)].data))) =>
              LET f == frame_of(sess'[s].sent[Len(sess'[s].sent)].data) IN
              /\ pty_in' = pty_in
              /\ (to_int(f.json.rows[1]) # None /\ to_int(f.json.cols[1]) # None) =>
                    pty_size'[pty_of(s)] =
                       <<to_int(f.json.rows[1])[1], to_int(f.json.cols[1])[1]>>]_vars

\* A client frame that is typed: any text frame that is no resize object
\* with cols and rows.
IsKeystroke(text) == ~IsResizeFrame(frame_of(text))

\* The keystroke frames among the text frames a session has taken.
keystrokes(frames) ==
    LET typed(fr) == fr.kind = "text" /\ IsKeystroke(fr.data) IN
    SelectSeq(frames, typed)

\* What the writes of keystroke frames put on a PTY.
keystrokes_written(writes) ==
    LET typed(wr) == IsKeystroke(wr.data) IN
    SelectSeq(writes, typed)

\* C21: on the local path the PTY has received exactly the keystroke frames
\* the client sent, in order and each in full, and a keystroke frame never
\* ends the session.
C21_KeystrokesWhole ==
    /\ \A s \in Sessions :
          (sess[s].state = "active" /\ sess[s].path = "local") =>
              LET keys == keystrokes(sess[s].sent)
                  got == keystrokes_written(pty_in[pty_of(s)])
              IN
              /\ Len(got) = Len(keys)
              /\ \A i \in DOMAIN keys : got[i].data = keys[i].data /\ got[i].whole
    /\ (lastOp.op = "frame" /\ lastOp.out \in {f.text : f \in Frames}
          /\ IsKeystroke(lastOp.out)) =>
              /\ lastOp.exc = ""
              /\ sess[lastOp.sid].state = "active"

\* The last step ran the finally block of the local handler.
TornDown == lastOp.op \in {"frame", "disconnect", "teardown"} /\ lastOp.outs # << >>

\* The descriptors of a host that refer to the PTY of session s.
pty_fds(s) ==
    {d \in DOMAIN fds[sess[s].host] :
        sess[s].pty # 0 /\ fds[sess[s].host][d].pty = sess[s].pty}

\* C22: however a local session ends, after the finally block no descriptor
\* of its PTY is open, neither side, its read task is cancelled or finished
\* and its shell is not running.
C22_NoLeak ==
    TornDown =>
        LET x == sess[lastOp.sid] IN
        /\ x.state = "closed"
        /\ pty_fds(lastOp.sid) = {}
        /\ x.read_task \in {"none", "cancelled", "finished"}
        /\ x.proc # "running"

\* C23: the finally block of a local session cancels the read task, stops
\* the shell also when os.close raises, sends SIGTERM first and SIGKILL when
\* the shell has not exited in the grace period or terminate raised, and lets
\* no exception out.
C23_TeardownReleasesAll ==
    TornDown =>
        LET x == sess[lastOp.sid]
            k == lastOp.outs[2]
        IN
        /\ x.read_task # "running"
        /\ x.proc # "running"
        /\ x.proc = "terminated" => (k = "exits" /\ x.signals = <<"SIGTERM">>)
        /\ x.proc = "killed" =>
              \/ k = "ignores" /\ x.signals = <<"SIGTERM", "SIGKILL">>
              \/ k = "raises" /\ x.signals = <<"SIGKILL">>
        /\ x.proc \in {"none", "exited"} => x.signals = << >>
        /\ x.error = ""

\* C23 witness: os.close raised, the shell ignored SIGTERM and was killed, and
\* the read task was cancelled.
C23_Witness ==
    /\ TornDown
    /\ lastOp.outs = <<"raises", "ignores">>
    /\ sess[lastOp.sid].proc = "killed"
    /\ sess[lastOp.sid].read_task = "cancelled"

\* One side of a running remote relay has ended.
SideEnded(s) ==
    /\ sess[s].path = "remote"
    /\ sess[s].state = "active"
    /\ (sess[s].peer = "gone" \/ sess[s].agent = "gone")

\* C24: on the remote path, once the client or the agent has ended, the
\* session eventually is closed, with remote_ws closed and no forwarding
\* coroutine running, whatever the other side does.
C24_RelayCloses ==
    \A s \in Sessions :
        SideEnded(s) ~>
            (/\ sess[s].state = "closed"
             /\ sess[s].remote_ws = "closed"
             /\ sess[s].to_remote # "running"
             /\ sess[s].from_remote # "running")

\* The place of a state in connecting -> active -> closing -> closed.
StateRank(state) ==
    CASE state = "connecting" -> 1
      [] state = "active" -> 2
      [] state = "closing" -> 3
      [] state = "closed" -> 4

\* C25: a local session never moves backwards in connecting -> active ->
\* closing -> closed, and once its shell has exited it eventually is closed
\* with no further frame or disconnect of the client needed.
C25_LocalLifecycle ==
    /\ [][\A s \in Sessions :
            (sess[s].state # "closed" /\ sess[s].path = "local") =>
                StateRank(sess'[s].state) >= StateRank(sess[s].state)]_vars
    /\ \A s \in Sessions :
          (sess[s].path = "local" /\ sess[s].state = "active" /\ sess[s].proc = "exited")
              ~> (sess[s].state = "closed")

\* The relay was asked for an agent that is not registered or not online.
RelayRefused ==
    /\ lastOp.op = "remote_terminal"
    /\ (get_agent(lastOp.id) = None \/ get_agent(lastOp.id)[1].status # "online")

\* C26: on the remote path, for an agent that is not registered or not
\* online, the client gets one error line and its connection is closed; no
\* connection to an agent is opened and no forwarding coroutine is started.
C26_RefusedNoOutbound ==
    RelayRefused =>
        LET x == sess[lastOp.sid] IN
        /\ x.state = "closed"
        /\ ~lastOp.ret
        /\ lastOp.net = 0
        /\ x.remote_ws = "none"
        /\ x.to_remote = "none" /\ x.from_remote = "none"
        /\ x.tx = << >>
        /\ x.rx = IF x.peer # "connected" THEN << >>
                  ELSE IF get_agent(lastOp.id) = None
                       THEN <<Line("Error: Agent not found")>>
                       ELSE <<Line("Error: Agent is offline")>>

\* C26 witness: the relay refused a connected client whose agent is
\* registered but offline.
C26_Witness ==
    /\ RelayRefused
    /\ get_agent(lastOp.id) # None
    /\ sess[lastOp.sid].peer = "connected"
    /\ sess[lastOp.sid].rx = <<Line("Error: Agent is offline")>>

\* C27: on the remote path the agent has been sent every frame the client
\* sent, text or binary, unchanged, and the client every frame the agent
\* sent, with its type; the master has opened no PTY and started no shell.
C27_RelayVerbatim ==
    \A s \in Sessions :
        (sess[s].path = "remote" /\ sess[s].state = "active") =>
            /\ sess[s].agent = "connected" => sess[s].tx = sess[s].sent
            /\ sess[s].peer = "connected" => sess[s].rx = sess[s].agent_sent
            /\ sess[s].pty = 0 /\ sess[s].proc = "none" /\ sess[s].master_fd = None
            /\ fds[sess[s].host] = << >>
            /\ \A p \in PtyIds : pty_size[p] = <<0, 0>> /\ pty_in[p] = << >>

IsPrefix(a, b) == Len(a) <= Len(b) /\ a = SubSeq(b, 1, Len(a))

\* What the frames a local session took put on its PTY, in their order.
RECURSIVE typed_by(_)
typed_by(frames) ==
    IF frames = << >> THEN << >>
    ELSE typed_after(frame_of(frames[1].data)) \o typed_by(Tail(frames))

\* C28: in each direction of a session data arrives in the order produced,
\* nothing twice: on the local path the client has the PTY's chunks in read
\* order and the PTY the keystroke frames in arrival order; on the remote path
\* what was sent on a hop is a prefix of what was received for it.
C28_InOrder ==
    \A s \in Sessions :
        /\ (sess[s].path = "local" /\ sess[s].state = "active" /\ pty_of(s) # 0) =>
              LET p == pty_of(s) IN
              /\ Len(sess[s].rx) <= sess[s].nread
              /\ \A i \in DOMAIN sess[s].rx :
                    sess[s].rx[i] = WireFrame("binary", pty_out[p][i], p)
              /\ [i \in DOMAIN pty_in[p] |-> pty_in[p][i].data] = typed_by(sess[s].sent)
        /\ (sess[s].path = "remote" /\ sess[s].state = "active") =>
              /\ IsPrefix(sess[s].tx, sess[s].sent)
              /\ IsPrefix(sess[s].rx, sess[s].agent_sent)

\* C28 witness: a local client has two different chunks and its PTY two
\* different keystroke frames, or a remote client has two different frames
\* of the agent.
C28_Witness ==
    \E s \in Sessions :
        /\ sess[s].state = "active"
        /\ Len(sess[s].rx) = 2
        /\ sess[s].rx[1] # sess[s].rx[2]
        /\ sess[s].path = "local" =>
              (Len(pty_in[pty_of(s)]) = 2 /\ pty_in[pty_of(s)][1] # pty_in[pty_of(s)][2])
        /\ sess[s].path = "remote" =>
              (Len(sess[s].tx) = 2 /\ sess[s].tx[1] # sess[s].tx[2])

\* A local session that has its PTY and its shell.
Owns(s) == sess[s].path = "local" /\ sess[s].state = "active" /\ sess[s].pty # 0

\* C29: each of several local sessions has its own PTY and shell: what a
\* client sends is written to its session's PTY only, a client gets the
\* output of its session's PTY only, and the teardown of one session leaves
\* the descriptor, the read task and the shell of the others alone.
C29_OwnPty ==
    \A s \in Sessions :
        Owns(s) =>
            /\ \A t \in Sessions \ {s} :
                  (Owns(t) /\ sess[t].host = sess[s].host) =>
                      /\ sess[t].pty # sess[s].pty
                      /\ sess[t].master_fd # sess[s].master_fd
            /\ \A i \in DOMAIN pty_in[sess[s].pty] : pty_in[sess[s].pty][i].by = s
            /\ \A i \in DOMAIN sess[s].rx : sess[s].rx[i].src = sess[s].pty
            /\ pty_of(s) = sess[s].pty
            /\ sess[s].proc \in {"running", "exited"}
            /\ sess[s].read_task \in {"running", "finished"}

\* C29 witness: one session was just torn down while another one, which has
\* typed into its PTY and received its output, goes on.
C29_Witness ==
    /\ TornDown
    /\ \E s \in Sessions \ {lastOp.sid} :
          /\ Owns(s)
          /\ pty_in[sess[s].pty] # << >>
          /\ sess[s].rx # << >>
          /\ sess[lastOp.sid].pty # 0

----------------------------------------------------------------------------
(* Claims about the argument lists of the tool *)

\* An argument of the tool, as the characters or words it is made of.
Word(t) == <<t>>

\* str(n) of a non-negative int: its decimal digits.
RECURSIVE str(_)
str(n) == IF n < 10 THEN <<Digits[n + 1]>> ELSE str(n \div 10) \o <<Digits[(n % 10) + 1]>>

\* The arguments of an executor method.
VmArgs ==
    { [name |-> "vm1", cpus |-> 2, memory |-> "1G", disk |-> "5G", image |-> "22.04"],
      [name |-> "vm2", cpus |-> 16, memory |-> "512M", disk |-> "10G", image |-> "jammy"] }

\* LocalVMExecutor: the list each method hands to run_multipass_command
\* first.
local_args(op, a) ==
    CASE op = "list_vms"    -> <<Word("list"), Word("--format"), Word("json")>>
      [] op = "get_vm_info" -> <<Word("info"), Word(a.name), Word("--format"), Word("json")>>
      [] op = "create_vm"   -> <<Word("launch"), Word(a.image), Word("--name"), Word(a.name),
                                 Word("--cpus"), str(a.cpus), Word("--memory"), Word(a.memory),
                                 Word("--disk"), Word(a.disk)>>
      [] op = "start_vm"    -> <<Word("start"), Word(a.name)>>
      [] op = "stop_vm"     -> <<Word("stop"), Word(a.name)>>
      [] op = "delete_vm"   -> <<Word("delete"), Word(a.name)>>

\* AgentExecutor: the list each method hands to self.run_multipass_command
\* first.
agent_args(op, a) ==
    CASE op = "list_vms"    -> <<Word("list"), Word("--format"), Word("json")>>
      [] op = "get_vm_info" -> <<Word("info"), Word(a.name), Word("--format"), Word("json")>>
      [] op = "create_vm"   -> <<Word("launch"), Word(a.image), Word("--name"), Word(a.name),
                                 Word("--cpus"), str(a.cpus), Word("--memory"), Word(a.memory),
                                 Word("--disk"), Word(a.disk)>>
      [] op = "start_vm"    -> <<Word("start"), Word(a.name)>>
      [] op = "stop_vm"     -> <<Word("stop"), Word(a.name)>>
      [] op = "delete_vm"   -> <<Word("delete"), Word(a.name)>>

\* The tool invocations of a method, from its runs: the method's own list,
\* and ["purge"] for the second run of delete_vm.
invocations(first, runs) ==
    [i \in DOMAIN runs |-> IF runs[i] = "purge" THEN <<Word("purge")>> ELSE first]

\* The argument grammar of the tool, per operation.
grammar(op, a) ==
    CASE op = "list_vms"    -> << <<Word("list"), Word("--format"), Word("json")>> >>
      [] op = "get_vm_info" -> << <<Word("info"), Word(a.name), Word("--format"), Word("json")>> >>
      [] op = "create_vm"   -> << <<Word("launch"), Word(a.image), Word("--name"), Word(a.name),
                                    Word("--cpus"), str(a.cpus), Word("--memory"), Word(a.memory),
                                    Word("--disk"), Word(a.disk)>> >>
      [] op = "start_vm"    -> << <<Word("start"), Word(a.name)>> >>
      [] op = "stop_vm"     -> << <<Word("stop"), Word(a.name)>> >>
      [] op = "delete_vm"   -> << <<Word("delete"), Word(a.name)>>, <<Word("purge")>> >>

\* C30: for every operation and arguments, the tool invocations of the
\* master's local executor are those the agent's executor makes for the same
\* operation on a tool that behaves the same, and both follow the grammar:
\* all of it, or for delete_vm only `delete <name>` when that run failed.
C30_SameInvocations ==
    (lastOp.exe = "local" /\ lastOp.op \in ExecutorOps) =>
        \A a \in VmArgs :
            LET o1 == lastOp.outs[1]
                o2 == IF Len(lastOp.outs) > 1 THEN lastOp.outs[2] ELSE "exit0"
                here == invocations(local_args(lastOp.op, a), lastOp.runs)
                there == invocations(agent_args(lastOp.op, a),
                                     host_executor("agent", lastOp.op, o1, o2).runs)
            IN
            /\ here # << >>
            /\ IsPrefix(here, grammar(lastOp.op, a))
            /\ IsPrefix(there, grammar(lastOp.op, a))
            /\ here = there

----------------------------------------------------------------------------
(* Claims about the processes *)

\* The other tasks of a host's process.
OtherTasks(host) == IF host = "master" THEN MasterTasks ELSE AgentTasks

\* C31: while a handler of a process waits for the tool to finish, the
\* other tasks of that process can take steps.
C31_WaitSuspends ==
    \A host \in Hosts :
        host \in blocked => ENABLED OtherTasks(host)

\* The text the agent's own executor reports for the runs recorded in
\* lastOp.
tool_text ==
    host_executor("agent", lastOp.op, lastOp.outs[1],
                  IF Len(lastOp.outs) > 1 THEN lastOp.outs[2] ELSE "exit0").text

\* The tool on the agent exited non-zero in the last run of a remote
\* create, start, stop, delete or info.
ToolFailed ==
    /\ lastOp.exe = "remote"
    /\ lastOp.op \in ExecutorOps \ {"list_vms"}
    /\ lastOp.outs # << >>
    /\ lastOp.outs[Len(lastOp.outs)] = "nonzero"

\* C32: when the tool on the agent reports a failure for a remote create,
\* start, stop, delete or info, the Remote executor's result is a failure
\* whose text is the tool's error text as the agent's executor produced it
\* (for delete, the delete step's stderr).
C32_ToolErrorCarried ==
    ToolFailed => ~lastOp.ret /\ lastOp.err = tool_text

\* The hosts a listing asks: the local host and the agents that were online
\* when it was called.
Asked == {None} \cup {Some(id) : id \in listing.online}

\* C33: a listing that was called is answered, with the VMs of the local
\* host and of exactly the agents online at the call, less the hosts whose
\* own list failed or raised; no failure of one host keeps it from its
\* answer or from the remaining agents.
C33_Listing ==
    /\ [](listing.pc = "answered" => listing.vms = Asked \ listing.failed)
    /\ (listing.pc \in {"local", "agents"}) ~> (listing.pc = "answered")

\* C34: the terminal endpoint routes a connection to the local shell exactly
\* when the executor factory gives the local executor for the same agent_id.
C34_SameRouting ==
    \A s \in Sessions :
        sess[s].host = "master" /\ sess[s].state # "closed" =>
            (sess[s].path = "local" <=> is_local(sess[s].agent_id))

----------------------------------------------------------------------------
(* Further claims about the registry *)

\* C35: no register, heartbeat or sweep step lowers the last_seen of an agent
\* that is registered before and after the step.
C35_LastSeenMonotonic ==
    [][\A id \in Registered :
          id \in DOMAIN agents' => agents'[id].last_seen >= agents[id].last_seen]_vars

\* C36: a stored API key stays as it is, and is the key sent with outbound
\* calls, through every step, a registration of its id without a key
\* included; it changes only by a registration of its id that carries a key
\* and goes only by a successful unregister of its id.
C36_KeyKept ==
    [][\A id \in DOMAIN api_keys :
          \/ /\ id \in DOMAIN api_keys'
             /\ api_keys'[id] = api_keys[id]
             /\ get_headers(id)' = Some(api_keys[id])
          \/ /\ lastOp'.op = "unregister" /\ lastOp'.id = id /\ lastOp'.ret
             /\ id \notin DOMAIN api_keys'
          \/ \E req \in Requests(id) :
                /\ Truthy(req.api_key)
                /\ register_agent(req)
                /\ api_keys'[id] = req.api_key[1]]_vars

\* C36 witness: a1 was just registered again by a request without a key (the
\* requests naming host h1 carry none) and the key of its earlier
\* registration is still stored.
C36_Witness ==
    /\ lastOp.op = "register"
    /\ lastOp.id = "a1"
    /\ "a1" \in Registered
    /\ agents["a1"].hostname = "h1"
    /\ get_agent_api_key("a1") = Some("k1")

\* C37: a key is stored only for registered ids.
C37_KeysOfRegistered == DOMAIN api_keys \subseteq DOMAIN agents

\* C37 witness: an agent was just removed while another agent's key is
\* stored.
C37_Witness ==
    /\ lastOp.op = "unregister"
    /\ lastOp.ret
    /\ lastOp.id \notin Registered
    /\ DOMAIN api_keys # {}

\* An agent's status agrees with its heartbeat recency at time t.
Agrees(agent, t) == (t - agent.last_seen > offline_threshold) <=> (agent.status = "offline")

\* C38: the steps of a sweep add and remove no agent, change no key and no
\* field of an agent but status, leave every agent alone whose status agrees
\* with its recency at the sweep's time, and leave the agent they visit in
\* agreement, so that a second sweep at that time changes nothing.
C38_SweepFrame ==
    [][monitor = "scanning" \/ monitor' = "scanning" =>
          /\ DOMAIN agents' = DOMAIN agents
          /\ api_keys' = api_keys
          /\ \A id \in Registered :
                /\ [agents'[id] EXCEPT !.status = agents[id].status] = agents[id]
                /\ (monitor = "scanning" /\ Agrees(agents[id], sweepNow)) =>
                       agents'[id] = agents[id]
                /\ (monitor = "scanning" /\ id \in sweepCur /\ sweepCur' = {}) =>
                       Agrees(agents'[id], sweepNow)]_vars

\* C38 witness: the sweep has just marked an agent offline that holds a key
\* and reported VMs, and is still scanning.
C38_Witness ==
    /\ monitor = "scanning"
    /\ \E id \in Registered \ sweepTodo :
          /\ agents[id].status = "offline"
          /\ sweepNow - agents[id].last_seen > offline_threshold
          /\ agents[id].vm_count > 0
          /\ id \in DOMAIN api_keys

----------------------------------------------------------------------------
(* Claims about the agent's uplink *)

\* C39: whenever the agent is running and the master is reachable, the agent
\* comes to be in the master's registry, unless the master becomes
\* unreachable or the agent is stopped first.
C39_EventuallyRegistered ==
    (uplink.agent = "running" /\ uplink.master = "up")
        ~> ("a1" \in Registered \/ uplink.master = "down" \/ uplink.agent = "stopped")

====
